---- MODULE Spec2Model ----
(***************************************************************************)
(* FreshNutrients chat backend: context extraction, accumulation over the  *)
(* persisted chat log, product resolution against the catalog and the      *)
(* sufficiency evaluator (src/app/api/chat.py, src/app/core/database.py,   *)
(* src/app/core/llm_service.py).                                           *)
(*                                                                         *)
(* Python values are represented as follows: a dict is a function whose    *)
(* DOMAIN is the set of present keys; str is a TLA+ string; None and True  *)
(* are the two marker strings below (TLC cannot compare a string with a    *)
(* boolean, and a context dict holds both).                                *)
(***************************************************************************)
EXTENDS Integers, Sequences, FiniteSets, TLC

None == "<None>"
True == "<True>"
False == "<False>"

(* dict() *)
EmptyDict == <<>>

(* d.get(k) *)
Get(d, k) == IF k \in DOMAIN d THEN d[k] ELSE None

(* Python truthiness of a value held in a context dict *)
Truthy(v) == v \notin {None, False, ""}

(* d.update(e) / {**d, **e}: keys of e overwrite, other keys of d are kept *)
Update(d, e) == [k \in (DOMAIN d) \cup (DOMAIN e) |-> IF k \in DOMAIN e THEN e[k] ELSE d[k]]

(* {k: v} *)
Entry(k, v) == [x \in {k} |-> v]

(***************************************************************************)
(* str operations used by the extractor                                    *)
(***************************************************************************)
UpperChars == <<"A","B","C","D","E","F","G","H","I","J","K","L","M",
                "N","O","P","Q","R","S","T","U","V","W","X","Y","Z">>
LowerChars == <<"a","b","c","d","e","f","g","h","i","j","k","l","m",
                "n","o","p","q","r","s","t","u","v","w","x","y","z">>
Digits == {"0","1","2","3","4","5","6","7","8","9"}

IndexOf(seq, c) == IF \E i \in 1..Len(seq) : seq[i] = c
                   THEN CHOOSE i \in 1..Len(seq) : seq[i] = c
                   ELSE 0

LowerChar(c) == IF IndexOf(UpperChars, c) > 0 THEN LowerChars[IndexOf(UpperChars, c)] ELSE c
UpperChar(c) == IF IndexOf(LowerChars, c) > 0 THEN UpperChars[IndexOf(LowerChars, c)] ELSE c
IsCased(c) == IndexOf(UpperChars, c) > 0 \/ IndexOf(LowerChars, c) > 0

CharAt(s, i) == SubSeq(s, i, i)

RECURSIVE Lower(_)
(* str.lower() *)
Lower(s) == IF s = "" THEN "" ELSE LowerChar(CharAt(s, 1)) \o Lower(SubSeq(s, 2, Len(s)))

(* str.capitalize(): first character upper-cased, the rest lower-cased *)
Capitalize(s) == IF s = "" THEN "" ELSE UpperChar(CharAt(s, 1)) \o Lower(SubSeq(s, 2, Len(s)))

RECURSIVE TitleFrom(_, _)
TitleFrom(s, prevCased) ==
    IF s = "" THEN ""
    ELSE LET c == CharAt(s, 1)
         IN (IF prevCased THEN LowerChar(c) ELSE UpperChar(c))
            \o TitleFrom(SubSeq(s, 2, Len(s)), IsCased(c))

(* str.title(): a cased character is upper-cased after an uncased one *)
Title(s) == TitleFrom(s, FALSE)

(* k in s *)
Contains(s, k) == \E i \in 1..(Len(s) - Len(k) + 1) : SubSeq(s, i, i + Len(k) - 1) = k

(* \w of the re module, on a lower-cased ASCII message *)
IsWordChar(c) == IndexOf(LowerChars, c) > 0 \/ IndexOf(UpperChars, c) > 0 \/ c \in Digits \/ c = "_"

WordAt(s, i) == i >= 1 /\ i <= Len(s) /\ IsWordChar(CharAt(s, i))

(* \b between positions p and p+1 of s *)
Boundary(s, p) == WordAt(s, p) # WordAt(s, p + 1)

(* variant: the keyword is searched as a substring, without the \b anchors *)
WordSearch_substring(s, k) ==
    \E i \in 1..(Len(s) - Len(k) + 1) : SubSeq(s, i, i + Len(k) - 1) = k

(* re.search(r'\b' + re.escape(k) + r'\b', s) *)
WordSearch(s, k) ==
    \E i \in 1..(Len(s) - Len(k) + 1) :
        /\ SubSeq(s, i, i + Len(k) - 1) = k
        /\ Boundary(s, i - 1)
        /\ Boundary(s, i + Len(k) - 1)

(* any(k in s for k in keywords) *)
AnyIn(s, keywords) == \E j \in 1..Len(keywords) : Contains(s, keywords[j])

(* index of the first list entry satisfying the test, 0 when the loop ends without a break *)
FirstContained(s, list) ==
    IF \E j \in 1..Len(list) : Contains(s, list[j])
    THEN CHOOSE j \in 1..Len(list) : Contains(s, list[j]) /\ \A h \in 1..(j - 1) : ~Contains(s, list[h])
    ELSE 0

(* variant: the keyword whose occurrence starts earliest in the message wins *)
FirstWord_by_position(s, list) ==
    IF \E j \in 1..Len(list) : WordSearch(s, list[j])
    THEN LET At(j) == CHOOSE i \in 1..Len(s) :
                         /\ SubSeq(s, i, i + Len(list[j]) - 1) = list[j]
                         /\ Boundary(s, i - 1) /\ Boundary(s, i + Len(list[j]) - 1)
                         /\ \A h \in 1..(i - 1) :
                               ~(/\ SubSeq(s, h, h + Len(list[j]) - 1) = list[j]
                                 /\ Boundary(s, h - 1) /\ Boundary(s, h + Len(list[j]) - 1))
             hits == {j \in 1..Len(list) : WordSearch(s, list[j])}
         IN CHOOSE j \in hits : \A h \in hits : At(j) < At(h) \/ (At(j) = At(h) /\ j <= h)
    ELSE 0

FirstWord(s, list) ==
    IF \E j \in 1..Len(list) : WordSearch(s, list[j])
    THEN CHOOSE j \in 1..Len(list) : WordSearch(s, list[j]) /\ \A h \in 1..(j - 1) : ~WordSearch(s, list[h])
    ELSE 0

(***************************************************************************)
(* extract_context_from_message                                            *)
(***************************************************************************)
products == <<"afrikelp plus", "afrikelp", "kelp plus", "afrikelp+",
              "blac-mag", "blacmag", "blac mag",
              "aquamate", "aqua mate", "aqua-mate",
              "calsap">>

ProductLabel(product) ==
    IF product \in {"afrikelp plus", "afrikelp", "kelp plus", "afrikelp+"} THEN "AfriKelp Plus"
    ELSE IF product \in {"blac-mag", "blacmag", "blac mag"} THEN "BlaC-Mag"
    ELSE IF product \in {"aquamate", "aqua mate", "aqua-mate"} THEN "AquaMate"
    ELSE IF product \in {"calsap"} THEN "Calsap"
    ELSE Title(product)

crops == <<"soybeans", "soybean", "macadamias", "macadamia", "avocados", "avocado",
           "seedlings", "seedling", "pecans", "pecan", "subtropicals", "subtropical",
           "tomatoes", "tomato", "potatoes", "potato", "tobacco", "maize", "corn", "wheat",
           "lettuce", "cabbage", "onions", "onion", "carrots", "carrot", "spinach",
           "apples", "apple", "pears", "pear", "peaches", "peach", "plums", "plum",
           "cherries", "cherry", "grapes", "grape", "oranges", "orange", "lemons", "lemon",
           "grass", "pasture", "barley", "citrus", "deciduous", "nursery", "transplants", "transplant",
           "vegetables", "veggie", "fruits", "fruit", "avos",
           "soyas", "soya", "legumes", "legume", "beans", "bean", "peas", "pea">>

CropLabel(crop) ==
    IF crop \in {"vegetables", "veggie"} THEN "Tomatoes & Vegetables"
    ELSE IF crop \in {"tomato", "tomatoes"} THEN "Tomatoes & Vegetables"
    ELSE IF crop \in {"potato", "potatoes"} THEN "Potatoes"
    ELSE IF crop \in {"grass", "pasture"} THEN "Grass pastures"
    ELSE IF crop \in {"tobacco"} THEN "Field Tobacco"
    ELSE IF crop \in {"maize", "corn"} THEN "Maize & Wheat"
    ELSE IF crop \in {"wheat"} THEN "Maize & Wheat"
    ELSE IF crop \in {"apple", "apples", "pear", "pears", "peach", "peaches", "plum", "plums",
                      "cherry", "cherries", "grape", "grapes", "citrus", "orange", "oranges",
                      "lemon", "lemons", "deciduous", "fruit", "fruits"} THEN "Deciduous Fruit"
    ELSE IF crop \in {"macadamia", "macadamias", "avocado", "avocados", "avos",
                      "subtropical", "subtropicals"} THEN "Macadamias & Avos (Other Subtropicals)"
    ELSE IF crop \in {"pecan", "pecans"} THEN "Pecan Nuts"
    ELSE IF crop \in {"seedling", "seedlings", "nursery", "transplant", "transplants"}
         THEN "Seedlings (Tobacco included)"
    ELSE IF crop \in {"soya", "soyas", "soybean", "soybeans", "legume", "legumes",
                      "bean", "beans", "pea", "peas"} THEN "Soyas and other legumes"
    ELSE Capitalize(crop)

(* the applications dict, in insertion order *)
applications == << [app_type |-> "foliar", keywords |-> <<"foliar", "spray", "spraying", "leaf", "leaves">>],
                   [app_type |-> "soil",   keywords |-> <<"soil", "ground", "root", "roots", "planting">>],
                   [app_type |-> "water",  keywords |-> <<"water", "irrigation", "irrigate", "hydroponic">>] >>

high_ph_indicators == <<"alkaline", "alkalinity", "high ph", "ph too high", "ph is high",
                        "salty soil", "salt problems", "high salinity", "lime needs",
                        "ph above", "ph over", "basic soil">>

low_ph_indicators == <<"acidic", "acidity", "acid soil", "low ph", "ph too low", "ph is low",
                       "sour soil", "ph below", "ph under", "acidic soil">>

(* the patterns are \b<text>\b; the text between the word boundaries is listed *)
generic_ph_patterns == <<"ph", "ph level", "ph levels", "ph balance", "ph imbalance",
                         "ph testing", "ph meter", "soil ph", "ph adjustment">>

(* variant: the generic patterns are tried before the indicators *)
classify_ph_issue_generic_first(message_lower) ==
    IF \E j \in 1..Len(generic_ph_patterns) : WordSearch(message_lower, generic_ph_patterns[j])
    THEN "pH Issues"
    ELSE IF AnyIn(message_lower, high_ph_indicators) THEN "Soil Salinity"
    ELSE IF AnyIn(message_lower, low_ph_indicators) THEN "Soil Acidity"
    ELSE None

classify_ph_issue(message_lower) ==
    IF AnyIn(message_lower, high_ph_indicators) THEN "Soil Salinity"
    ELSE IF AnyIn(message_lower, low_ph_indicators) THEN "Soil Acidity"
    ELSE IF \E j \in 1..Len(generic_ph_patterns) : WordSearch(message_lower, generic_ph_patterns[j])
         THEN "pH Issues"
    ELSE None

(* the problems dict, in insertion order *)
problems == << [problem |-> "Plant Nutrition",
                keywords |-> <<"plant nutrition", "nutrient deficiency", "nutrients needed", "feeding program",
                               "npk requirements", "nutritional needs", "nutrition of">>],
               [problem |-> "Fertilizer Efficiency",
                keywords |-> <<"fertilizer efficiency", "efficient fertilizer", "effectiveness of fertilizer",
                               "improve efficiency">>],
               [problem |-> "Soil Health",
                keywords |-> <<"disease control", "disease prevention", "fungus control", "pest control",
                               "pest management", "health problems", "soil health">>],
               [problem |-> "Soil Salinity",
                keywords |-> <<"soil salinity", "salt problems", "salty soil", "high salinity", "alkaline soil",
                               "alkaline", "high ph", "ph too high">>],
               [problem |-> "Soil Acidity",
                keywords |-> <<"soil acidity", "acid soil", "acidic soil", "low ph", "ph too low", "sour soil">>],
               [problem |-> "Irrigation efficiency",
                keywords |-> <<"irrigation efficiency", "water efficiency", "watering efficiency",
                               "irrigation problems">>],
               [problem |-> "Shelf life management",
                keywords |-> <<"shelf life", "storage life", "preservation", "post harvest">>] >>

timing_keywords == <<"timing", "when should", "what time", "schedule", "frequency", "interval", "how often",
                     "application timing", "spray timing", "fertilizer timing", "season", "seasonal",
                     "before planting", "after planting", "during growing", "monthly", "weekly", "daily",
                     "days apart", "weeks apart", "months apart", "how many times">>

(* index of the first bucket of a keyword dict with a keyword hit, 0 if none *)
FirstBucket(s, buckets) ==
    IF \E j \in 1..Len(buckets) : AnyIn(s, buckets[j].keywords)
    THEN CHOOSE j \in 1..Len(buckets) :
            AnyIn(s, buckets[j].keywords) /\ \A h \in 1..(j - 1) : ~AnyIn(s, buckets[h].keywords)
    ELSE 0

ExtractProduct(message_lower) ==
    LET j == FirstContained(message_lower, products)
    IN IF j = 0 THEN EmptyDict ELSE Entry("product_name", ProductLabel(products[j]))

(* variant: the crop list is tried first, the nut rule only when it finds nothing *)
ExtractCrop_list_first(message_lower) ==
    LET j == FirstWord(message_lower, crops)
    IN IF j # 0 THEN Entry("crop_type", CropLabel(crops[j]))
       ELSE IF WordSearch(message_lower, "nuts") \/ WordSearch(message_lower, "nut")
       THEN Entry("crop_type", "Pecan Nuts")
       ELSE EmptyDict

ExtractCrop(message_lower) ==
    IF WordSearch(message_lower, "nuts") \/ WordSearch(message_lower, "nut")
    THEN Entry("crop_type", "Pecan Nuts")
    ELSE LET j == FirstWord(message_lower, crops)
         IN IF j = 0 THEN EmptyDict ELSE Entry("crop_type", CropLabel(crops[j]))

ExtractApplication(message_lower) ==
    LET j == FirstBucket(message_lower, applications)
    IN IF j = 0 THEN EmptyDict ELSE Entry("application_type", Title(applications[j].app_type))

(* variant: the problems dict is tried first, pH classification only when it finds nothing *)
ExtractProblem_table_first(message_lower) ==
    LET ph_problem == classify_ph_issue(message_lower)
        j == FirstBucket(message_lower, problems)
    IN IF j # 0 THEN Entry("problem", problems[j].problem)
       ELSE IF Truthy(ph_problem)
       THEN IF ph_problem = "pH Issues"
            THEN Update(Entry("ph_issues", True), Entry("problem", "pH Issues"))
            ELSE Entry("problem", ph_problem)
       ELSE EmptyDict

ExtractProblem(message_lower) ==
    LET ph_problem == classify_ph_issue(message_lower)
    IN IF Truthy(ph_problem)
       THEN IF ph_problem = "pH Issues"
            THEN Update(Entry("ph_issues", True), Entry("problem", "pH Issues"))
            ELSE Entry("problem", ph_problem)
       ELSE LET j == FirstBucket(message_lower, problems)
            IN IF j = 0 THEN EmptyDict ELSE Entry("problem", problems[j].problem)

ExtractTiming(message_lower) ==
    IF AnyIn(message_lower, timing_keywords)
    THEN Update(Entry("timing_question", True), Entry("question_type", "timing"))
    ELSE EmptyDict

extract_context_from_message(message) ==
    LET message_lower == Lower(message)
    IN Update(Update(Update(Update(ExtractProduct(message_lower),
                                   ExtractCrop(message_lower)),
                            ExtractApplication(message_lower)),
                     ExtractProblem(message_lower)),
              ExtractTiming(message_lower))

(***************************************************************************)
(* ProductDataManager: the Products table and its three searches           *)
(* (src/app/core/database.py).  A row carries the columns the resolver     *)
(* and its keys read, plus notes, which distinguishes rows that agree on   *)
(* every key column.  The table is held in ProductName order, the order    *)
(* every search returns (ORDER BY ProductName).                            *)
(***************************************************************************)
Row(name, crop, application, stage, problem, app_type, notes) ==
    [product_name |-> name, crop |-> crop, application |-> application, growth_stage |-> stage,
     problem |-> problem, application_type |-> app_type, notes |-> notes]

RowAquaMate   == Row("AquaMate", "Maize & Wheat", "Irrigation line", "Vegetative", "Irrigation efficiency", "Water", "n1")
RowBlacAcid   == Row("BlaC-Mag", "Potatoes", "Soil drench", "Planting", "Soil Acidity", "Soil", "n2")
RowBlacSalt   == Row("BlaC-Mag", "Potatoes", "Soil drench", "Planting", "Soil Salinity", "Soil", "n3")
RowCalsapA    == Row("Calsap", "Potatoes", "Foliar spray", "Flowering", "Plant Nutrition", "Foliar", "n4")
RowCalsapB    == Row("Calsap", "Potatoes", "Foliar spray", "Flowering", "Plant Nutrition", "Foliar", "n5")
RowCalsapPlus == Row("Calsap Plus", "Potatoes", "Foliar spray", "Fruit set", "Plant Nutrition", "Foliar", "n6")

CatalogFull == <<RowAquaMate, RowBlacAcid, RowBlacSalt, RowCalsapA, RowCalsapB, RowCalsapPlus>>
CatalogNoPh == <<RowAquaMate, RowCalsapA, RowCalsapB, RowCalsapPlus>>
Catalogs == {CatalogFull, CatalogNoPh}

(* col LIKE '%q%' for a wildcard-free q *)
Like(col, q) == col # None /\ Contains(col, q)

(* rows[:limit] *)
Take(rows, limit) == SubSeq(rows, 1, IF Len(rows) < limit THEN Len(rows) ELSE limit)

NameLimit == 10

(* the three calls of product_manager, as values *)
NameCall(query) == [kind |-> "search_products_by_name", query |-> query,
                    crop |-> None, application_type |-> None, problem |-> None]
CriteriaCall(crop, application_type, problem) ==
    [kind |-> "search_products_by_criteria", query |-> None,
     crop |-> crop, application_type |-> application_type, problem |-> problem]
CropCall(query) == [kind |-> "search_products", query |-> query,
                    crop |-> None, application_type |-> None, problem |-> None]

(* variant: the name search has no WHERE clause *)
search_products_by_name_unfiltered(table, query) == Take(table, NameLimit)

search_products_by_name(table, query) ==
    LET Match(row) == Like(row.product_name, query)
    IN Take(SelectSeq(table, Match), NameLimit)

search_products_by_criteria(table, crop, application_type, problem) ==
    LET Match(row) == /\ Truthy(crop) => Like(row.crop, crop)
                      /\ Truthy(application_type) => Like(row.application_type, application_type)
                      /\ Truthy(problem) => Like(row.problem, problem)
    IN IF ~Truthy(crop) /\ ~Truthy(application_type) /\ ~Truthy(problem)
       THEN <<>>
       ELSE SelectSeq(table, Match)

search_products(table, query) ==
    LET Match(row) == Like(row.crop, query)
    IN SelectSeq(table, Match)

(* variant: a query that raises hands back the unfiltered table *)
Execute_failure_unfiltered(table, call, db_ok) ==
    IF ~db_ok THEN table
    ELSE IF call.kind = "search_products_by_name" THEN search_products_by_name(table, call.query)
    ELSE IF call.kind = "search_products_by_criteria"
         THEN search_products_by_criteria(table, call.crop, call.application_type, call.problem)
    ELSE search_products(table, call.query)

(* one call: its rows when the database answers, [] when the query raises *)
Execute(table, call, db_ok) ==
    IF ~db_ok THEN <<>>
    ELSE IF call.kind = "search_products_by_name" THEN search_products_by_name(table, call.query)
    ELSE IF call.kind = "search_products_by_criteria"
         THEN search_products_by_criteria(table, call.crop, call.application_type, call.problem)
    ELSE search_products(table, call.query)

(***************************************************************************)
(* get_relevant_products                                                   *)
(***************************************************************************)
(* variant: the pH key also holds the problem column *)
PhUniqueKey_with_problem(product) == <<product.product_name, product.crop, product.application,
                                       product.growth_stage, product.problem, product.application_type>>

PhUniqueKey(product) == <<product.product_name, product.crop, product.application,
                          product.growth_stage, product.application_type>>

UniqueKey(product) == <<product.product_name, product.crop, product.application,
                        product.growth_stage, product.problem, product.application_type>>

RECURSIVE PhDedupLoop(_, _, _, _)
PhDedupLoop(all_ph_products, i, seen_products, unique_products) ==
    IF i > Len(all_ph_products) THEN unique_products
    ELSE LET unique_key == PhUniqueKey(all_ph_products[i])
         IN IF unique_key \notin seen_products
            THEN PhDedupLoop(all_ph_products, i + 1, seen_products \cup {unique_key},
                             Append(unique_products, all_ph_products[i]))
            ELSE PhDedupLoop(all_ph_products, i + 1, seen_products, unique_products)

RECURSIVE DedupLoop(_, _, _, _)
DedupLoop(found, i, seen_combinations, unique_products) ==
    IF i > Len(found) THEN unique_products
    ELSE LET unique_key == UniqueKey(found[i])
         IN IF unique_key \notin seen_combinations
            THEN DedupLoop(found, i + 1, seen_combinations \cup {unique_key},
                           Append(unique_products, found[i]))
            ELSE DedupLoop(found, i + 1, seen_combinations, unique_products)

(* A resolver state: the products variable, the calls made so far with the  *)
(* rows each returned, whether a return statement was reached, the context. *)
Issue(st, table, call, db) ==
    LET rows == Execute(table, call, db[Len(st.queries) + 1])
    IN [st EXCEPT !.products = rows,
                  !.queries = Append(st.queries, [call |-> call, rows |-> rows])]

(* variant: the direct lookup does not return early *)
DirectBranch_no_return(st, table, db) ==
    IF Truthy(Get(st.context, "product_name"))
    THEN Issue(st, table, NameCall(st.context["product_name"]), db)
    ELSE st

(* 1. direct product lookup *)
DirectBranch(st, table, db) ==
    IF Truthy(Get(st.context, "product_name"))
    THEN LET s1 == Issue(st, table, NameCall(st.context["product_name"]), db)
         IN [s1 EXCEPT !.returned = (s1.products # <<>>)]
    ELSE st

(* 2. problem-based search *)
ProblemBranch(st, table, db) ==
    IF st.returned \/ ~Truthy(Get(st.context, "problem")) THEN st
    ELSE LET crop == Get(st.context, "crop_type")
             app  == Get(st.context, "application_type")
         IN IF st.context["problem"] = "pH Issues"
            THEN LET s1 == Issue(st, table, CriteriaCall(crop, app, "Soil Acidity"), db)
                     s2 == Issue(s1, table, CriteriaCall(crop, app, "Soil Salinity"), db)
                     all_ph_products == s1.products \o s2.products
                     unique_products == PhDedupLoop(all_ph_products, 1, {}, <<>>)
                 IN [s2 EXCEPT !.products = unique_products,
                               !.context = Update(st.context, Entry("ph_unified_product", True)),
                               !.returned = (unique_products # <<>>)]
            ELSE LET s1 == Issue(st, table, CriteriaCall(crop, app, st.context["problem"]), db)
                 IN [s1 EXCEPT !.returned = (s1.products # <<>>)]

(* variant: the crop branch searches even when the crop is the only field *)
CropBranch_always_search(st, table, db) ==
    IF st.returned THEN st
    ELSE IF Truthy(Get(st.context, "crop_type"))
    THEN LET s1 == Issue(st, table, CriteriaCall(st.context["crop_type"],
                                                 Get(st.context, "application_type"),
                                                 Get(st.context, "problem")), db)
         IN IF s1.products = <<>>
            THEN Issue(s1, table, CropCall(st.context["crop_type"]), db)
            ELSE s1
    ELSE IF Truthy(Get(st.context, "application_type"))
    THEN Issue(st, table, CriteriaCall(None, st.context["application_type"], None), db)
    ELSE st

(* variant: the crop branch has no fallback to the crop search *)
CropBranch_no_fallback(st, table, db) ==
    IF st.returned THEN st
    ELSE IF Truthy(Get(st.context, "crop_type"))
    THEN LET has_only_crop == /\ Truthy(Get(st.context, "crop_type"))
                              /\ ~Truthy(Get(st.context, "problem"))
                              /\ ~Truthy(Get(st.context, "application_type"))
                              /\ ~Truthy(Get(st.context, "product_name"))
         IN IF has_only_crop THEN st
            ELSE Issue(st, table, CriteriaCall(st.context["crop_type"],
                                               Get(st.context, "application_type"),
                                               Get(st.context, "problem")), db)
    ELSE IF Truthy(Get(st.context, "application_type"))
    THEN Issue(st, table, CriteriaCall(None, st.context["application_type"], None), db)
    ELSE st

(* variant: the application method search also filters on the problem *)
CropBranch_app_with_problem(st, table, db) ==
    IF st.returned THEN st
    ELSE IF Truthy(Get(st.context, "crop_type"))
    THEN LET has_only_crop == /\ Truthy(Get(st.context, "crop_type"))
                              /\ ~Truthy(Get(st.context, "problem"))
                              /\ ~Truthy(Get(st.context, "application_type"))
                              /\ ~Truthy(Get(st.context, "product_name"))
         IN IF has_only_crop THEN st
            ELSE LET s1 == Issue(st, table, CriteriaCall(st.context["crop_type"],
                                                         Get(st.context, "application_type"),
                                                         Get(st.context, "problem")), db)
                 IN IF s1.products = <<>>
                    THEN Issue(s1, table, CropCall(st.context["crop_type"]), db)
                    ELSE s1
    ELSE IF Truthy(Get(st.context, "application_type"))
    THEN Issue(st, table, CriteriaCall(None, st.context["application_type"],
                                       Get(st.context, "problem")), db)
    ELSE st

(* 3. crop-based search, 4. application method search *)
CropBranch(st, table, db) ==
    IF st.returned THEN st
    ELSE IF Truthy(Get(st.context, "crop_type"))
    THEN LET has_only_crop == /\ Truthy(Get(st.context, "crop_type"))
                              /\ ~Truthy(Get(st.context, "problem"))
                              /\ ~Truthy(Get(st.context, "application_type"))
                              /\ ~Truthy(Get(st.context, "product_name"))
         IN IF has_only_crop THEN st
            ELSE LET s1 == Issue(st, table, CriteriaCall(st.context["crop_type"],
                                                         Get(st.context, "application_type"),
                                                         Get(st.context, "problem")), db)
                 IN IF s1.products = <<>>
                    THEN Issue(s1, table, CropCall(st.context["crop_type"]), db)
                    ELSE s1
    ELSE IF Truthy(Get(st.context, "application_type"))
    THEN Issue(st, table, CriteriaCall(None, st.context["application_type"], None), db)
    ELSE st

(* the closing duplicate removal, reached only without an earlier return *)
FinalDedup(st) ==
    IF st.returned THEN st
    ELSE [st EXCEPT !.products = DedupLoop(st.products, 1, {}, <<>>), !.returned = TRUE]

get_relevant_products(context, table, db) ==
    LET st0 == [products |-> <<>>, queries |-> <<>>, returned |-> FALSE, context |-> context]
    IN FinalDedup(CropBranch(ProblemBranch(DirectBranch(st0, table, db), table, db), table, db))

(***************************************************************************)
(* LLMService._has_sufficient_context; completeness_score in hundredths,   *)
(* prompt_message |-> None where the returned dict has no such key         *)
(***************************************************************************)
(* variant: the crop rule does not look at application_type *)
_has_sufficient_context_crop_first(user_context) ==
    IF Truthy(Get(user_context, "product"))
    THEN [sufficient |-> TRUE, missing_params |-> <<>>, completeness_score |-> 100,
          scenario |-> "product_direct", prompt_message |-> None]
    ELSE IF Truthy(Get(user_context, "crop_type")) /\ ~Truthy(Get(user_context, "problem"))
    THEN [sufficient |-> FALSE, missing_params |-> <<"problem", "application_type">>,
          completeness_score |-> 33, scenario |-> "crop_only",
          prompt_message |-> "I see you mentioned a crop."]
    ELSE IF Truthy(Get(user_context, "problem")) /\ ~Truthy(Get(user_context, "crop_type"))
    THEN [sufficient |-> TRUE, missing_params |-> <<"crop_type">>,
          completeness_score |-> 67, scenario |-> "problem_focused",
          prompt_message |-> "I can show you products for this problem."]
    ELSE IF Truthy(Get(user_context, "problem")) /\ Truthy(Get(user_context, "crop_type"))
    THEN [sufficient |-> TRUE, missing_params |-> <<>>, completeness_score |-> 100,
          scenario |-> "problem_and_crop", prompt_message |-> None]
    ELSE IF Truthy(Get(user_context, "application_type")) /\ ~Truthy(Get(user_context, "problem"))
    THEN [sufficient |-> FALSE, missing_params |-> <<"problem">>,
          completeness_score |-> 33, scenario |-> "application_only",
          prompt_message |-> "I see you mentioned an application method."]
    ELSE [sufficient |-> FALSE, missing_params |-> <<"problem">>,
          completeness_score |-> 0, scenario |-> "insufficient",
          prompt_message |-> "To help you find the right products,"]

_has_sufficient_context(user_context) ==
    IF Truthy(Get(user_context, "product"))
    THEN [sufficient |-> TRUE, missing_params |-> <<>>, completeness_score |-> 100,
          scenario |-> "product_direct", prompt_message |-> None]
    ELSE IF Truthy(Get(user_context, "crop_type")) /\ ~Truthy(Get(user_context, "problem"))
            /\ ~Truthy(Get(user_context, "application_type"))
    THEN [sufficient |-> FALSE, missing_params |-> <<"problem", "application_type">>,
          completeness_score |-> 33, scenario |-> "crop_only",
          prompt_message |-> "I see you mentioned a crop."]
    ELSE IF Truthy(Get(user_context, "problem")) /\ ~Truthy(Get(user_context, "crop_type"))
    THEN [sufficient |-> TRUE, missing_params |-> <<"crop_type">>,
          completeness_score |-> 67, scenario |-> "problem_focused",
          prompt_message |-> "I can show you products for this problem."]
    ELSE IF Truthy(Get(user_context, "problem")) /\ Truthy(Get(user_context, "crop_type"))
    THEN [sufficient |-> TRUE, missing_params |-> <<>>, completeness_score |-> 100,
          scenario |-> "problem_and_crop", prompt_message |-> None]
    ELSE IF Truthy(Get(user_context, "application_type")) /\ ~Truthy(Get(user_context, "problem"))
    THEN [sufficient |-> FALSE, missing_params |-> <<"problem">>,
          completeness_score |-> 33, scenario |-> "application_only",
          prompt_message |-> "I see you mentioned an application method."]
    ELSE [sufficient |-> FALSE, missing_params |-> <<"problem">>,
          completeness_score |-> 0, scenario |-> "insufficient",
          prompt_message |-> "To help you find the right products,"]

(***************************************************************************)
(* State                                                                   *)
(***************************************************************************)
VARIABLES
    catalog,              \* the Products table, in ProductName order
    chatLogs,             \* the ChatLogs table, in insertion (Timestamp) order
    azure_available,      \* LLMService.azure_available
    last_azure_failure,   \* LLMService.last_azure_failure, NoFailure for None
    now,                  \* datetime.now(), in seconds
    pc,                   \* position of the chat handler
    request,              \* the ChatMessage being handled
    recent_history,       \* chat(): recent_history, newest first
    extracted_context,    \* chat(): extracted_context
    conversation_context, \* chat(): conversation_context
    combined_context,     \* chat(): combined_context
    products_found,       \* chat(): products
    queries,              \* the catalog calls made for this request, with their rows
    ai_result,            \* chat(): ai_result
    response,             \* the ChatResponse returned by chat()
    suspended,            \* the locals of the other chat() coroutine, waiting at an await
    llm_call,             \* the last call of an LLMService method made outside chat()
    rate_limit_storage,   \* security.rate_limit_storage: client id -> admitted timestamps
    dispatched            \* what RateLimitMiddleware.dispatch did with the last request

vars == <<catalog, chatLogs, azure_available, last_azure_failure, now, pc, request, recent_history,
          extracted_context, conversation_context, combined_context, products_found, queries,
          ai_result, response, suspended, llm_call, rate_limit_storage, dispatched>>

NoFailure == -1
circuit_breaker_timeout == 300
HistoryLimit == 5

NoRequest == [message |-> None, conversation_id |-> None, user_context |-> EmptyDict]
NoAnalysis == [sufficient |-> FALSE, missing_params |-> <<>>, completeness_score |-> 0,
               scenario |-> None, prompt_message |-> None]
NoResult == [status |-> None, provider |-> None, analysed |-> FALSE, context_analysis |-> NoAnalysis,
             azure_called |-> FALSE, guidance |-> None, response |-> None]
NoResponse == [status |-> None, response |-> None, context_used |-> <<>>, history_count |-> 0]
(* the texts a ChatResponse can carry: the model's answer, LLMService._get_emergency_response(),
   and the apology of chat()'s except branch *)
AzureText == "<azure answer>"
EmergencyText == "<emergency response>"
ApologyText == "<technical difficulties>"
ErrorResponse == [status |-> "error", response |-> ApologyText, context_used |-> <<>>, history_count |-> 0]
(* user_context: null in the request body *)
NullContext == [k \in {"<null>"} |-> None]
ContextUsedLimit == 10
HistoryCountLimit == 10
(* seq tells one call from the next when both return the same *)
NoCall == [op |-> None, status |-> None, provider |-> None, azure_called |-> FALSE, seq |-> 0]
RATE_LIMIT_REQUESTS == 100
RATE_LIMIT_WINDOW == 3600
ExemptPaths == {"/", "/health"}
NoDispatch == [client |-> None, path |-> None, status |-> 0, forwarded |-> FALSE]

(* the locals of a chat() call that has not started *)
NoFrame == [pc |-> "idle", request |-> NoRequest, recent_history |-> <<>>, extracted_context |-> EmptyDict,
            conversation_context |-> EmptyDict, combined_context |-> EmptyDict, products_found |-> <<>>,
            queries |-> <<>>, ai_result |-> NoResult, response |-> NoResponse]

(***************************************************************************)
(* Inputs                                                                  *)
(***************************************************************************)
MaxLog == 1
MaxLogAccum == 6

Sessions == {"s1", "s2"}
Messages == {"hello", "Tell me about Calsap", "my potatoes", "what ph?", "maize with low ph"}
UserContexts == {EmptyDict, Entry("application_type", "Foliar")}

AccumSessions == {"s1"}
AccumMessages == {"my potatoes", "maize with low ph", "what ph?"}
AccumUserContexts == {EmptyDict, Entry("crop_type", None), Entry("problem", "Soil Health")}

MaxLogConc == 1
ConcMessages == {"my potatoes", "what ph?"}

(* messages for the extractor alone: one or two phrases, and whole sentences *)
ExtractWords == {"nut", "nuts", "nutrition", "peanut", "maize", "tomato", "lettuce", "spray",
                 "alkaline", "acidic", "ph", "phosphate", "soil health", "shelf life", "hello"}
ExtractSentences == {"I need nutrition advice", "Spray my maize and tomato",
                     "My soil PH is too high", "Nuts or maize?", "Acidic or alkaline PH?"}
ExtractMessages ==
    ExtractWords \cup {a \o " " \o b : a \in ExtractWords, b \in ExtractWords} \cup ExtractSentences

(* extract_context_from_message on the messages the model sends *)
(* the breaker and the failure paths: one conversation, the clock moving in
   steps that land on either side of circuit_breaker_timeout and on it *)
MaxNow == 600
TickSteps == {150, 300}
ServiceMessages == {"hello", "my potatoes"}
ServiceUserContexts == {EmptyDict, NullContext}

(* a timing question and the turns that follow it in one conversation, with
   and without a user_context that answers the flag itself *)
StickyMessages == {"When should I spray?", "what ph?", "hello"}
StickyUserContexts == {EmptyDict, Entry("timing_question", False)}

(* the rate limiter: one address with and without an API key, the clock
   jumping past the window *)
MaxRateNow == 3601
RateTickSteps == {3601}
ClientIps == {"10.0.0.1"}
ApiKeys == {None, "k1"}
Paths == {"/", "/health", "/api/v1/chat"}

ExtractedOf == [m \in Messages \cup AccumMessages \cup StickyMessages |-> extract_context_from_message(m)]

(* outcomes of the catalog calls of one request: db[i] iff the i-th call is answered *)
DbOutcomes == [1..5 -> BOOLEAN]
DbAnswers == {[i \in 1..5 |-> TRUE]}

(***************************************************************************)
(* ChatLogManager                                                          *)
(***************************************************************************)
RECURSIVE Reverse(_)
Reverse(seq) == IF seq = <<>> THEN <<>> ELSE Append(Reverse(Tail(seq)), Head(seq))

(* SELECT TOP limit ... WHERE SessionID = :session_id ORDER BY Timestamp DESC; [] when the read raises *)
get_chat_history(log, session_id, limit, read_ok) ==
    LET OfSession(entry) == entry.session_id = session_id
    IN IF read_ok THEN Take(Reverse(SelectSeq(log, OfSession)), limit) ELSE <<>>

(* variant: the row is inserted twice *)
log_chat_interaction_twice(log, session_id, user_message) ==
    Append(Append(log, [session_id |-> session_id, user_message |-> user_message]),
           [session_id |-> session_id, user_message |-> user_message])

(* INSERT INTO ChatLogs *)
log_chat_interaction(log, session_id, user_message) ==
    Append(log, [session_id |-> session_id, user_message |-> user_message])

(***************************************************************************)
(* chat(): accumulation                                                    *)
(***************************************************************************)
RECURSIVE AccumulateLoop_replace(_, _, _)
(* variant: each entry's context replaces the accumulator instead of updating it *)
AccumulateLoop_replace(chronological, i, context) ==
    IF i > Len(chronological) THEN context
    ELSE LET entry == chronological[i]
         IN IF Truthy(entry.user_message)
            THEN LET entry_context == ExtractedOf[entry.user_message]
                 IN AccumulateLoop_replace(chronological, i + 1,
                                           IF entry_context # EmptyDict THEN entry_context ELSE context)
            ELSE AccumulateLoop_replace(chronological, i + 1, context)

RECURSIVE AccumulateLoop(_, _, _)
(* for entry in reversed(recent_history): conversation_context.update(entry_context) *)
AccumulateLoop(chronological, i, context) ==
    IF i > Len(chronological) THEN context
    ELSE LET entry == chronological[i]
         IN IF Truthy(entry.user_message)
            THEN LET entry_context == ExtractedOf[entry.user_message]
                 IN AccumulateLoop(chronological, i + 1,
                                   IF entry_context # EmptyDict THEN Update(context, entry_context) ELSE context)
            ELSE AccumulateLoop(chronological, i + 1, context)

(* variant: only the latest entry is used *)
Accumulate_latest_only(history) == AccumulateLoop(Take(history, 1), 1, EmptyDict)

(* variant: the newest-first list is folded without being reversed *)
Accumulate_newest_first(history) == AccumulateLoop(history, 1, EmptyDict)

Accumulate(history) == AccumulateLoop(Reverse(history), 1, EmptyDict)

(* variant: the explicit user_context is left out of the merge *)
Combine_without_user_context(conv, extracted, user_context) == Update(conv, extracted)

Combine(conv, extracted, user_context) == Update(Update(conv, extracted), user_context)

(***************************************************************************)
(* LLMService                                                              *)
(***************************************************************************)
(* variant: the breaker is still open at the end of the timeout *)
_is_azure_circuit_open_inclusive ==
    IF last_azure_failure = NoFailure THEN FALSE
    ELSE now - last_azure_failure <= circuit_breaker_timeout

_is_azure_circuit_open ==
    IF last_azure_failure = NoFailure THEN FALSE
    ELSE now - last_azure_failure < circuit_breaker_timeout

(***************************************************************************)
(* Actions                                                                 *)
(***************************************************************************)
(* chat(), lines 405-440: extract, read the history, accumulate, combine.
   With user_context null the merge of line 435 raises TypeError, which the
   except of lines 543-558 turns into the error response *)
Chat_Receive(message, conversation_id, user_context, read_ok) ==
    /\ pc \in {"idle", "done"}
    /\ LET history == get_chat_history(chatLogs, conversation_id, HistoryLimit, read_ok)
           extracted == ExtractedOf[message]
           conv == Accumulate(history)
       IN /\ request' = [message |-> message, conversation_id |-> conversation_id,
                         user_context |-> user_context]
          /\ recent_history' = history
          /\ extracted_context' = extracted
          /\ conversation_context' = conv
          /\ IF user_context = NullContext
             THEN /\ combined_context' = EmptyDict
                  /\ response' = ErrorResponse
                  /\ pc' = "done"
             ELSE /\ combined_context' = Combine(conv, extracted, user_context)
                  /\ response' = NoResponse
                  /\ pc' = "context"
    /\ products_found' = <<>>
    /\ queries' = <<>>
    /\ ai_result' = NoResult
    /\ UNCHANGED <<suspended, llm_call, rate_limit_storage, dispatched, catalog, chatLogs, azure_available,
                   last_azure_failure, now>>

(* chat(), line 412 alone: extract_context_from_message(message.message) *)
Chat_Extract ==
    /\ pc = "received"
    /\ extracted_context' = extract_context_from_message(request.message)
    /\ pc' = "extracted"
    /\ UNCHANGED <<suspended, llm_call, rate_limit_storage, dispatched, catalog, chatLogs, azure_available, last_azure_failure, now, request, recent_history,
                   conversation_context, combined_context, products_found, queries, ai_result, response>>

(* variant: the resolver works on a context rebuilt from the log as it is now *)
Chat_Resolve_rereads_log(db) ==
    /\ pc = "context"
    /\ LET history == get_chat_history(chatLogs, request.conversation_id, HistoryLimit, TRUE)
           rebuilt == Combine(Accumulate(history), extracted_context, request.user_context)
           st == get_relevant_products(rebuilt, catalog, db)
       IN /\ products_found' = st.products
          /\ queries' = st.queries
          /\ combined_context' = st.context
    /\ pc' = "resolved"
    /\ UNCHANGED <<suspended, llm_call, rate_limit_storage, dispatched, catalog, chatLogs, azure_available, last_azure_failure, now, request,
                   recent_history, extracted_context, conversation_context, ai_result, response>>

(* chat(), line 443: get_relevant_products(combined_context, conversation_id);
   its own history read (limit=3) only logs a debug line and changes nothing *)
Chat_Resolve(db) ==
    /\ pc = "context"
    /\ LET st == get_relevant_products(combined_context, catalog, db)
       IN /\ products_found' = st.products
          /\ queries' = st.queries
          /\ combined_context' = st.context
    /\ pc' = "resolved"
    /\ UNCHANGED <<suspended, llm_call, rate_limit_storage, dispatched, catalog, chatLogs, azure_available, last_azure_failure, now, request, recent_history,
                   extracted_context, conversation_context, ai_result, response>>

(* get_smart_chat_response, lines 427-439 and 622-632: the three emergency results *)
EmergencyResult(status) ==
    [status |-> status, provider |-> "emergency", analysed |-> FALSE, context_analysis |-> NoAnalysis,
     azure_called |-> FALSE, guidance |-> None, response |-> EmergencyText]

(* variant: the timing guidance is the last resort instead of the first test *)
SelectGuidance_timing_last(user_context, product_context, context_analysis) ==
    IF Len(product_context) > 0
    THEN IF Truthy(Get(user_context, "ph_unified_product")) THEN "ph_unified"
         ELSE IF context_analysis.scenario \in {"product_direct", "crop_only", "problem_focused",
                                                "problem_and_crop"}
         THEN context_analysis.scenario
         ELSE IF Truthy(Get(user_context, "timing_question")) THEN "timing"
         ELSE "context_analysis"
    ELSE IF Truthy(Get(user_context, "timing_question")) THEN "timing"
    ELSE "no_products"

(* get_smart_chat_response, lines 450-596: the guidance appended to the prompt *)
SelectGuidance(user_context, product_context, context_analysis) ==
    IF Truthy(Get(user_context, "timing_question")) THEN "timing"
    ELSE IF Len(product_context) > 0
    THEN IF Truthy(Get(user_context, "ph_unified_product")) THEN "ph_unified"
         ELSE IF context_analysis.scenario \in {"product_direct", "crop_only", "problem_focused",
                                                "problem_and_crop"}
         THEN context_analysis.scenario
         ELSE "context_analysis"
    ELSE "no_products"

(* variant: an exception raised before the Azure call is returned as a failure
   without being recorded *)
SmartResponse_records_azure_only(user_context, product_context, prompt_ok, azure_ok) ==
    IF ~azure_available
    THEN [result |-> EmergencyResult("service_unavailable"), failure |-> last_azure_failure]
    ELSE IF _is_azure_circuit_open
    THEN [result |-> EmergencyResult("circuit_breaker_open"), failure |-> last_azure_failure]
    ELSE IF ~prompt_ok
    THEN [result |-> EmergencyResult("service_failed"), failure |-> last_azure_failure]
    ELSE LET context_analysis == _has_sufficient_context(user_context)
             guidance == SelectGuidance(user_context, product_context, context_analysis)
         IN IF azure_ok
            THEN [result |-> [status |-> "success", provider |-> "azure_openai", analysed |-> TRUE,
                              context_analysis |-> context_analysis, azure_called |-> TRUE,
                              guidance |-> guidance, response |-> AzureText],
                  failure |-> NoFailure]
            ELSE [result |-> [status |-> "service_failed", provider |-> "emergency", analysed |-> TRUE,
                              context_analysis |-> context_analysis, azure_called |-> TRUE,
                              guidance |-> guidance, response |-> EmergencyText],
                  failure |-> now]

(* get_smart_chat_response: the result and the new last_azure_failure.
   prompt_ok: context analysis and prompt formatting raise nothing;
   azure_ok: the Azure OpenAI call answers *)
SmartResponse(user_context, product_context, prompt_ok, azure_ok) ==
    IF ~azure_available
    THEN [result |-> EmergencyResult("service_unavailable"), failure |-> last_azure_failure]
    ELSE IF _is_azure_circuit_open
    THEN [result |-> EmergencyResult("circuit_breaker_open"), failure |-> last_azure_failure]
    ELSE IF ~prompt_ok
    THEN [result |-> EmergencyResult("service_failed"), failure |-> now]
    ELSE LET context_analysis == _has_sufficient_context(user_context)
             guidance == SelectGuidance(user_context, product_context, context_analysis)
         IN IF azure_ok
            THEN [result |-> [status |-> "success", provider |-> "azure_openai", analysed |-> TRUE,
                              context_analysis |-> context_analysis, azure_called |-> TRUE,
                              guidance |-> guidance, response |-> AzureText],
                  failure |-> NoFailure]
            ELSE [result |-> [status |-> "service_failed", provider |-> "emergency", analysed |-> TRUE,
                              context_analysis |-> context_analysis, azure_called |-> TRUE,
                              guidance |-> guidance, response |-> EmergencyText],
                  failure |-> now]

(* chat(), line 448: llm_service.get_smart_chat_response *)
Chat_Respond(prompt_ok, azure_ok) ==
    /\ pc = "resolved"
    /\ LET r == SmartResponse(combined_context, products_found, prompt_ok, azure_ok)
       IN /\ ai_result' = r.result
          /\ last_azure_failure' = r.failure
    /\ pc' = "responded"
    /\ UNCHANGED <<suspended, llm_call, rate_limit_storage, dispatched, catalog, chatLogs, azure_available, now,
                   request, recent_history, extracted_context, conversation_context, combined_context,
                   products_found, queries, response>>

(* chat(), lines 457-486: the metadata entry of one product *)
ProductInfo(product) ==
    [product_name |-> product.product_name, crop |-> product.crop,
     application_type |-> product.application_type, problem |-> product.problem]

(* variant: a failed log write ends the request with the error response *)
Chat_Log_write_failure_is_error(log_ok, count_ok) ==
    /\ pc = "responded"
    /\ LET current_history == get_chat_history(chatLogs, request.conversation_id, HistoryCountLimit, count_ok)
           shown == Take(products_found, ContextUsedLimit)
       IN response' = IF log_ok
                      THEN [status |-> IF ai_result.status = "success" THEN "success" ELSE "partial",
                            response |-> ai_result.response,
                            context_used |-> [i \in 1..Len(shown) |-> ProductInfo(shown[i])],
                            history_count |-> Len(current_history)]
                      ELSE ErrorResponse
    /\ chatLogs' = IF log_ok
                   THEN log_chat_interaction(chatLogs, request.conversation_id, request.message)
                   ELSE chatLogs
    /\ pc' = "done"
    /\ UNCHANGED <<suspended, llm_call, rate_limit_storage, dispatched, catalog, azure_available,
                   last_azure_failure, now, request, recent_history, extracted_context,
                   conversation_context, combined_context, products_found, queries, ai_result>>

(* chat(), lines 488-541: count the history, log the interaction, return the
   ChatResponse; neither a failed count nor a failed write ends the request *)
Chat_Log(log_ok, count_ok) ==
    /\ pc = "responded"
    /\ LET current_history == get_chat_history(chatLogs, request.conversation_id, HistoryCountLimit, count_ok)
           shown == Take(products_found, ContextUsedLimit)
       IN response' = [status |-> IF ai_result.status = "success" THEN "success" ELSE "partial",
                       response |-> ai_result.response,
                       context_used |-> [i \in 1..Len(shown) |-> ProductInfo(shown[i])],
                       history_count |-> Len(current_history)]
    /\ chatLogs' = IF log_ok
                   THEN log_chat_interaction(chatLogs, request.conversation_id, request.message)
                   ELSE chatLogs
    /\ pc' = "done"
    /\ UNCHANGED <<suspended, llm_call, rate_limit_storage, dispatched, catalog, azure_available,
                   last_azure_failure, now, request, recent_history, extracted_context,
                   conversation_context, combined_context, products_found, queries, ai_result>>

(* the locals of the running chat() coroutine *)
Running == [pc |-> pc, request |-> request, recent_history |-> recent_history,
            extracted_context |-> extracted_context, conversation_context |-> conversation_context,
            combined_context |-> combined_context, products_found |-> products_found,
            queries |-> queries, ai_result |-> ai_result, response |-> response]

(* the event loop, at an await of chat(): the running coroutine is suspended
   with its locals and the other one resumes with its own *)
Switch ==
    /\ suspended' = Running
    /\ pc' = suspended.pc
    /\ request' = suspended.request
    /\ recent_history' = suspended.recent_history
    /\ extracted_context' = suspended.extracted_context
    /\ conversation_context' = suspended.conversation_context
    /\ combined_context' = suspended.combined_context
    /\ products_found' = suspended.products_found
    /\ queries' = suspended.queries
    /\ ai_result' = suspended.ai_result
    /\ response' = suspended.response
    /\ UNCHANGED <<llm_call, rate_limit_storage, dispatched, catalog, chatLogs, azure_available, last_azure_failure, now>>

(* LLMService.reset_circuit_breaker *)
ResetCircuitBreaker ==
    /\ last_azure_failure # NoFailure
    /\ last_azure_failure' = NoFailure
    /\ UNCHANGED <<suspended, llm_call, rate_limit_storage, dispatched, catalog, chatLogs, azure_available, now, pc, request, recent_history,
                   extracted_context, conversation_context, combined_context, products_found,
                   queries, ai_result, response>>

(* variant: the basic call goes to Azure OpenAI whatever the breaker says *)
GetChatResponse_ignores_breaker(azure_ok) ==
    /\ IF ~azure_available
       THEN /\ llm_call' = [op |-> "get_chat_response", status |-> "service_unavailable",
                            provider |-> "emergency", azure_called |-> FALSE, seq |-> 1 - llm_call.seq]
            /\ UNCHANGED last_azure_failure
       ELSE IF azure_ok
       THEN /\ llm_call' = [op |-> "get_chat_response", status |-> "success",
                            provider |-> "azure_openai", azure_called |-> TRUE, seq |-> 1 - llm_call.seq]
            /\ last_azure_failure' = NoFailure
       ELSE /\ llm_call' = [op |-> "get_chat_response", status |-> "service_failed",
                            provider |-> "emergency", azure_called |-> TRUE, seq |-> 1 - llm_call.seq]
            /\ last_azure_failure' = now
    /\ UNCHANGED <<suspended, rate_limit_storage, dispatched, catalog, chatLogs, azure_available, now, pc,
                   request, recent_history, extracted_context, conversation_context, combined_context,
                   products_found, queries, ai_result, response>>

(* LLMService.get_chat_response, the call without product context *)
GetChatResponse(azure_ok) ==
    /\ IF ~azure_available
       THEN /\ llm_call' = [op |-> "get_chat_response", status |-> "service_unavailable",
                            provider |-> "emergency", azure_called |-> FALSE, seq |-> 1 - llm_call.seq]
            /\ UNCHANGED last_azure_failure
       ELSE IF _is_azure_circuit_open
       THEN /\ llm_call' = [op |-> "get_chat_response", status |-> "circuit_breaker_open",
                            provider |-> "emergency", azure_called |-> FALSE, seq |-> 1 - llm_call.seq]
            /\ UNCHANGED last_azure_failure
       ELSE IF azure_ok
       THEN /\ llm_call' = [op |-> "get_chat_response", status |-> "success",
                            provider |-> "azure_openai", azure_called |-> TRUE, seq |-> 1 - llm_call.seq]
            /\ last_azure_failure' = NoFailure
       ELSE /\ llm_call' = [op |-> "get_chat_response", status |-> "service_failed",
                            provider |-> "emergency", azure_called |-> TRUE, seq |-> 1 - llm_call.seq]
            /\ last_azure_failure' = now
    /\ UNCHANGED <<suspended, rate_limit_storage, dispatched, catalog, chatLogs, azure_available, now, pc,
                   request, recent_history, extracted_context, conversation_context, combined_context,
                   products_found, queries, ai_result, response>>

(* variant: the connectivity test goes through the breaker like a chat call *)
TestConnectivity_through_breaker(azure_ok) ==
    /\ IF ~azure_available
       THEN /\ llm_call' = [op |-> "test_connectivity", status |-> "not_configured",
                            provider |-> None, azure_called |-> FALSE, seq |-> 1 - llm_call.seq]
            /\ UNCHANGED last_azure_failure
       ELSE IF _is_azure_circuit_open
       THEN /\ llm_call' = [op |-> "test_connectivity", status |-> "failed",
                            provider |-> None, azure_called |-> FALSE, seq |-> 1 - llm_call.seq]
            /\ UNCHANGED last_azure_failure
       ELSE /\ llm_call' = [op |-> "test_connectivity", status |-> IF azure_ok THEN "connected" ELSE "failed",
                            provider |-> None, azure_called |-> TRUE, seq |-> 1 - llm_call.seq]
            /\ last_azure_failure' = IF azure_ok THEN NoFailure ELSE now
    /\ UNCHANGED <<suspended, rate_limit_storage, dispatched, catalog, chatLogs, azure_available, now, pc,
                   request, recent_history, extracted_context, conversation_context, combined_context,
                   products_found, queries, ai_result, response>>

(* LLMService.test_connectivity, called by GET /debug/status *)
TestConnectivity(azure_ok) ==
    /\ llm_call' = IF ~azure_available
                   THEN [op |-> "test_connectivity", status |-> "not_configured",
                         provider |-> None, azure_called |-> FALSE, seq |-> 1 - llm_call.seq]
                   ELSE [op |-> "test_connectivity", status |-> IF azure_ok THEN "connected" ELSE "failed",
                         provider |-> None, azure_called |-> TRUE, seq |-> 1 - llm_call.seq]
    /\ UNCHANGED <<suspended, rate_limit_storage, dispatched, catalog, chatLogs, azure_available,
                   last_azure_failure, now, pc, request, recent_history, extracted_context,
                   conversation_context, combined_context, products_found, queries, ai_result, response>>

(* RateLimitMiddleware.dispatch, lines 78-80 *)
ClientId(client_ip, api_key) == IF Truthy(api_key) THEN client_ip \o ":" \o api_key ELSE client_ip

(* rate_limit_storage[client_id], a defaultdict of deques *)
ClientRequests(client_id) ==
    IF client_id \in DOMAIN rate_limit_storage THEN rate_limit_storage[client_id] ELSE <<>>

RECURSIVE DropOld(_, _)
(* while client_requests and client_requests[0] < current_time - RATE_LIMIT_WINDOW: popleft() *)
DropOld(client_requests, current_time) ==
    IF client_requests # <<>> /\ Head(client_requests) < current_time - RATE_LIMIT_WINDOW
    THEN DropOld(Tail(client_requests), current_time)
    ELSE client_requests

(* variant: the request that finds the limit reached is still admitted *)
Dispatch_limit_off_by_one(client_ip, api_key, path) ==
    /\ IF path \in ExemptPaths
       THEN /\ dispatched' = [client |-> ClientId(client_ip, api_key), path |-> path,
                              status |-> 200, forwarded |-> TRUE]
            /\ UNCHANGED rate_limit_storage
       ELSE LET client_id == ClientId(client_ip, api_key)
                current_time == now
                client_requests == DropOld(ClientRequests(client_id), current_time)
            IN IF Len(client_requests) > RATE_LIMIT_REQUESTS
               THEN /\ rate_limit_storage' = Update(rate_limit_storage, Entry(client_id, client_requests))
                    /\ dispatched' = [client |-> client_id, path |-> path, status |-> 429, forwarded |-> FALSE]
               ELSE /\ rate_limit_storage' =
                          Update(rate_limit_storage, Entry(client_id, Append(client_requests, current_time)))
                    /\ dispatched' = [client |-> client_id, path |-> path, status |-> 200, forwarded |-> TRUE]
    /\ UNCHANGED <<suspended, llm_call, catalog, chatLogs, azure_available, last_azure_failure, now, pc,
                   request, recent_history, extracted_context, conversation_context, combined_context,
                   products_found, queries, ai_result, response>>

(* RateLimitMiddleware.dispatch: from the arrival of a request to the call of
   call_next or the 429 response; there is no await on the way *)
Dispatch(client_ip, api_key, path) ==
    /\ IF path \in ExemptPaths
       THEN /\ dispatched' = [client |-> ClientId(client_ip, api_key), path |-> path,
                              status |-> 200, forwarded |-> TRUE]
            /\ UNCHANGED rate_limit_storage
       ELSE LET client_id == ClientId(client_ip, api_key)
                current_time == now
                client_requests == DropOld(ClientRequests(client_id), current_time)
            IN IF Len(client_requests) >= RATE_LIMIT_REQUESTS
               THEN /\ rate_limit_storage' = Update(rate_limit_storage, Entry(client_id, client_requests))
                    /\ dispatched' = [client |-> client_id, path |-> path, status |-> 429, forwarded |-> FALSE]
               ELSE /\ rate_limit_storage' =
                          Update(rate_limit_storage, Entry(client_id, Append(client_requests, current_time)))
                    /\ dispatched' = [client |-> client_id, path |-> path, status |-> 200, forwarded |-> TRUE]
    /\ UNCHANGED <<suspended, llm_call, catalog, chatLogs, azure_available, last_azure_failure, now, pc,
                   request, recent_history, extracted_context, conversation_context, combined_context,
                   products_found, queries, ai_result, response>>

(* the clock: datetime.now() and time.time() move on by d seconds *)
Tick(d, limit) ==
    /\ now + d <= limit
    /\ now' = now + d
    /\ UNCHANGED <<suspended, llm_call, rate_limit_storage, dispatched, catalog, chatLogs, azure_available,
                   last_azure_failure, pc, request, recent_history, extracted_context,
                   conversation_context, combined_context, products_found, queries, ai_result, response>>

(***************************************************************************)
(* Specifications                                                          *)
(***************************************************************************)
(* nothing called outside chat() yet, no request seen by the middleware *)
InitOutside ==
    /\ llm_call = NoCall
    /\ rate_limit_storage = EmptyDict
    /\ dispatched = NoDispatch

InitRequest ==
    /\ pc = "idle"
    /\ request = NoRequest
    /\ recent_history = <<>>
    /\ extracted_context = EmptyDict
    /\ conversation_context = EmptyDict
    /\ combined_context = EmptyDict
    /\ products_found = <<>>
    /\ queries = <<>>
    /\ ai_result = NoResult
    /\ response = NoResponse

Init ==
    /\ catalog \in Catalogs
    /\ chatLogs = <<>>
    /\ azure_available \in BOOLEAN
    /\ last_azure_failure = NoFailure
    /\ now = 0
    /\ suspended = NoFrame
    /\ InitOutside
    /\ InitRequest

Next ==
    \/ \E m \in Messages, c \in Sessions, u \in UserContexts, ok \in BOOLEAN :
          Len(chatLogs) <= MaxLog /\ Chat_Receive(m, c, u, ok)
    \/ \E db \in DbOutcomes : Chat_Resolve(db)
    \/ \E ok \in BOOLEAN : Chat_Respond(TRUE, ok)
    \/ \E ok \in BOOLEAN : Chat_Log(ok, TRUE)
    \/ ResetCircuitBreaker

Spec == Init /\ [][Next]_vars

(* long conversations of one session against one catalog, with Azure OpenAI,
   the catalog and the log writes answering *)
InitAccum ==
    /\ catalog = CatalogFull
    /\ chatLogs = <<>>
    /\ azure_available = TRUE
    /\ last_azure_failure = NoFailure
    /\ now = 0
    /\ suspended = NoFrame
    /\ InitOutside
    /\ InitRequest

NextAccum ==
    \/ \E m \in AccumMessages, c \in AccumSessions, u \in AccumUserContexts, ok \in BOOLEAN :
          Len(chatLogs) <= MaxLogAccum /\ Chat_Receive(m, c, u, ok)
    \/ \E db \in DbAnswers : Chat_Resolve(db)
    \/ Chat_Respond(TRUE, TRUE)
    \/ Chat_Log(TRUE, TRUE)

SpecAccum == InitAccum /\ [][NextAccum]_vars

(* two chat() coroutines on one event loop, for the same or different
   conversations, interleaved at their awaits *)
NextConc ==
    \/ \E m \in ConcMessages, c \in Sessions :
          Len(chatLogs) <= MaxLogConc /\ Chat_Receive(m, c, EmptyDict, TRUE)
    \/ \E db \in DbAnswers : Chat_Resolve(db)
    \/ \E ok \in BOOLEAN : Chat_Respond(TRUE, ok)
    \/ Chat_Log(TRUE, TRUE)
    \/ Switch

SpecConc == InitAccum /\ [][NextConc]_vars

(* one chat() at a time beside the other callers of LLMService, with every
   failure the handler survives and the clock running *)
InitService ==
    /\ catalog = CatalogFull
    /\ chatLogs = <<>>
    /\ azure_available \in BOOLEAN
    /\ last_azure_failure = NoFailure
    /\ now = 0
    /\ suspended = NoFrame
    /\ InitOutside
    /\ InitRequest

NextService ==
    \/ \E m \in ServiceMessages, u \in ServiceUserContexts :
          Len(chatLogs) <= MaxLog /\ Chat_Receive(m, "s1", u, TRUE)
    \/ \E db \in DbAnswers : Chat_Resolve(db)
    \/ \E prompt_ok, azure_ok \in BOOLEAN : Chat_Respond(prompt_ok, azure_ok)
    \/ \E log_ok, count_ok \in BOOLEAN : Chat_Log(log_ok, count_ok)
    \/ \E ok \in BOOLEAN : GetChatResponse(ok)
    \/ \E ok \in BOOLEAN : TestConnectivity(ok)
    \/ ResetCircuitBreaker
    \/ \E d \in TickSteps : Tick(d, MaxNow)

SpecService == InitService /\ [][NextService]_vars

(* one conversation in which timing questions come and go, everything answering *)
NextSticky ==
    \/ \E m \in StickyMessages, u \in StickyUserContexts :
          Len(chatLogs) <= MaxLogAccum /\ Chat_Receive(m, "s1", u, TRUE)
    \/ \E db \in DbAnswers : Chat_Resolve(db)
    \/ Chat_Respond(TRUE, TRUE)
    \/ Chat_Log(TRUE, TRUE)

SpecSticky == InitAccum /\ [][NextSticky]_vars

(* two chat() coroutines again, with requests that end in the except branch,
   with the LLM service failing and with the log write failing *)
NextLog ==
    \/ \E m \in ConcMessages, c \in Sessions, u \in ServiceUserContexts :
          Len(chatLogs) <= MaxLogConc /\ Chat_Receive(m, c, u, TRUE)
    \/ \E db \in DbAnswers : Chat_Resolve(db)
    \/ \E ok \in BOOLEAN : Chat_Respond(TRUE, ok)
    \/ \E log_ok, count_ok \in BOOLEAN : Chat_Log(log_ok, count_ok)
    \/ Switch

SpecLog == InitAccum /\ [][NextLog]_vars

(* the middleware on its own: requests arrive and the clock moves *)
NextRate ==
    \/ \E ip \in ClientIps, key \in ApiKeys, path \in Paths : Dispatch(ip, key, path)
    \/ \E d \in RateTickSteps : Tick(d, MaxRateNow)

SpecRate == InitAccum /\ [][NextRate]_vars

(* the extractor on its own: a request with any of the messages arrives *)
InitExtract ==
    /\ catalog = CatalogFull
    /\ chatLogs = <<>>
    /\ azure_available = TRUE
    /\ last_azure_failure = NoFailure
    /\ now = 0
    /\ suspended = NoFrame
    /\ InitOutside
    /\ pc = "received"
    /\ request \in {[message |-> m, conversation_id |-> "s1", user_context |-> EmptyDict] :
                        m \in ExtractMessages}
    /\ recent_history = <<>>
    /\ extracted_context = EmptyDict
    /\ conversation_context = EmptyDict
    /\ combined_context = EmptyDict
    /\ products_found = <<>>
    /\ queries = <<>>
    /\ ai_result = NoResult
    /\ response = NoResponse

NextExtract == Chat_Extract

SpecExtract == InitExtract /\ [][NextExtract]_vars

(***************************************************************************)
(* Properties                                                              *)
(***************************************************************************)
Resolved == pc \in {"resolved", "responded", "done"}
Analysed == pc \in {"responded", "done"} /\ ai_result.analysed
InFlight == pc \in {"context", "resolved", "responded"}

Set(k) == Truthy(Get(combined_context, k))

Verdict(r) == <<r.sufficient, r.scenario, r.completeness_score>>

(* C1: whenever product_name is set in the combined context, the evaluator
   answers sufficient, product_direct, completeness 1.0 and no prompt message,
   whatever crop_type, problem and application_type hold. *)
C1_ProductDirect ==
    (Analysed /\ Set("product_name")) =>
        /\ Verdict(ai_result.context_analysis) = <<TRUE, "product_direct", 100>>
        /\ ai_result.context_analysis.prompt_message = None

(* C2: for a context without a product the evaluator's verdict is the one of
   the decision table: crop alone -> crop_only 0.33; problem without crop ->
   problem_focused 0.67; problem and crop -> problem_and_crop 1.0; application
   type without problem -> application_only 0.33; nothing -> insufficient 0.0. *)
C2_DecisionTable ==
    (Analysed /\ ~Set("product_name") /\ ~Set("product")) =>
        LET v == Verdict(ai_result.context_analysis)
            c == Set("crop_type")
            p == Set("problem")
            a == Set("application_type")
        IN /\ (c /\ ~p /\ ~a) => v = <<FALSE, "crop_only", 33>>
           /\ (p /\ ~c) => v = <<TRUE, "problem_focused", 67>>
           /\ (p /\ c) => v = <<TRUE, "problem_and_crop", 100>>
           /\ (a /\ ~p) => v = <<FALSE, "application_only", 33>>
           /\ (~c /\ ~p /\ ~a) => v = <<FALSE, "insufficient", 0>>
           /\ v[2] \in {"crop_only", "problem_focused", "problem_and_crop", "application_only", "insufficient"}

C2_Witness ==
    /\ Analysed /\ ~Set("product_name")
    /\ Set("problem") /\ Set("crop_type")
    /\ ai_result.context_analysis.scenario = "problem_and_crop"

(* C3: the list get_relevant_products returns never holds two products with
   the same key (product_name, crop, application, growth_stage, problem,
   application_type), whichever branch produced it. *)
C3_NoDuplicateKeys ==
    Resolved =>
        \A i, j \in 1..Len(products_found) :
            i < j => UniqueKey(products_found[i]) # UniqueKey(products_found[j])

(* the rows of the direct lookup, when the context names a product *)
DirectRows == IF Set("product_name") /\ queries # <<>> THEN queries[1].rows ELSE <<>>

(* C7: when product_name is set and the name lookup returns a row, the lookup
   is the only catalog call of the request and its rows are the result. *)
C7_DirectLookupReturns ==
    (Resolved /\ Set("product_name") /\ DirectRows # <<>>) =>
        /\ Len(queries) = 1
        /\ queries[1].call = NameCall(combined_context["product_name"])
        /\ products_found = queries[1].rows

C7_Witness ==
    /\ Resolved /\ Set("product_name") /\ DirectRows # <<>>
    /\ Set("problem") /\ Set("crop_type")

(* C8 as stated: every product the direct lookup returns is named exactly P. *)
C8_ExactName ==
    (Resolved /\ Set("product_name")) =>
        \A i \in 1..Len(DirectRows) : DirectRows[i].product_name = combined_context["product_name"]

(* C8, amended: every product the direct lookup returns has a name that
   contains P; the lookup is a partial match on the name. *)
C8_NameContains ==
    (Resolved /\ Set("product_name")) =>
        \A i \in 1..Len(DirectRows) : Contains(DirectRows[i].product_name, combined_context["product_name"])

C8_Witness ==
    /\ Resolved /\ Set("product_name") /\ Set("crop_type")
    /\ \E i \in 1..Len(DirectRows) : DirectRows[i].product_name # combined_context["product_name"]

(* the calls made after the direct lookup *)
AfterDirect == IF Set("product_name") THEN Tail(queries) ELSE queries

(* rows kept when of rows agreeing on the pH key only the first stays *)
FirstByPhKey(rows) ==
    LET kept == {i \in 1..Len(rows) :
                    \A j \in 1..(i - 1) :
                        <<rows[j].product_name, rows[j].crop, rows[j].application,
                          rows[j].growth_stage, rows[j].application_type>>
                        # <<rows[i].product_name, rows[i].crop, rows[i].application,
                            rows[i].growth_stage, rows[i].application_type>>}
        Pos(n) == CHOOSE i \in kept : Cardinality({h \in kept : h <= i}) = n
    IN [n \in 1..Cardinality(kept) |-> rows[Pos(n)]]

PhCase == Resolved /\ Get(combined_context, "problem") = "pH Issues" /\ DirectRows = <<>>

PhCalls ==
    <<CriteriaCall(Get(combined_context, "crop_type"), Get(combined_context, "application_type"), "Soil Acidity"),
      CriteriaCall(Get(combined_context, "crop_type"), Get(combined_context, "application_type"), "Soil Salinity")>>

(* C9 as stated: for the generic pH marker without direct product rows,
   exactly two criteria calls are made, Soil Acidity then Soil Salinity, and
   the result is their rows, acidity first, deduplicated on the pH key. *)
C9_ExactlyTwoQueries ==
    PhCase =>
        /\ Len(AfterDirect) = 2
        /\ AfterDirect[1].call = PhCalls[1]
        /\ AfterDirect[2].call = PhCalls[2]
        /\ products_found = FirstByPhKey(AfterDirect[1].rows \o AfterDirect[2].rows)

(* C9, amended: the first two criteria calls are Soil Acidity then Soil
   Salinity, filtered by crop_type and application_type; when their rows,
   deduplicated on the pH key, are not empty they are the result and no other
   call is made; when they are empty the crop and application branches run. *)
C9_TwoQueriesFirst ==
    PhCase =>
        /\ Len(AfterDirect) >= 2
        /\ AfterDirect[1].call = PhCalls[1]
        /\ AfterDirect[2].call = PhCalls[2]
        /\ LET union == FirstByPhKey(AfterDirect[1].rows \o AfterDirect[2].rows)
           IN IF union # <<>>
              THEN Len(AfterDirect) = 2 /\ products_found = union
              ELSE Len(AfterDirect) > 2
                     <=> (Set("crop_type") \/ Set("application_type"))

C9_Witness ==
    /\ PhCase
    /\ Len(AfterDirect) = 2
    /\ AfterDirect[1].rows # <<>> /\ AfterDirect[2].rows # <<>>
    /\ Len(products_found) < Len(AfterDirect[1].rows) + Len(AfterDirect[2].rows)

CropOnly == Set("crop_type") /\ ~Set("product_name") /\ ~Set("problem") /\ ~Set("application_type")

(* C10: with crop_type the only populated field, no catalog call is made, the
   result is empty, and the evaluator answers crop_only, 0.33, insufficient. *)
C10_CropOnlyNoSearch ==
    /\ (Resolved /\ CropOnly) => (queries = <<>> /\ products_found = <<>>)
    /\ (Analysed /\ CropOnly) => Verdict(ai_result.context_analysis) = <<FALSE, "crop_only", 33>>

C10_Witness == Analysed /\ CropOnly /\ queries = <<>> /\ catalog # <<>>

(* the logged turns of the request's conversation, oldest first; while the
   request is in flight its own turn is not yet among them *)
PriorTurns ==
    LET OfSession(entry) == entry.session_id = request.conversation_id
    IN SelectSeq(chatLogs, OfSession)

TurnContext(i) == ExtractedOf[PriorTurns[i].user_message]

(* the history read of the request was answered *)
ReadAnswered == PriorTurns # <<>> /\ recent_history # <<>>

(* the turns among the 5 most recent logged ones *)
Recent(i) == i > Len(PriorTurns) - 5

(* no later turn, nor the current message, nor the explicit context sets k *)
NotSetAfter(i, k) ==
    /\ \A j \in (i + 1)..Len(PriorTurns) : k \notin DOMAIN TurnContext(j)
    /\ k \notin DOMAIN extracted_context
    /\ k \notin DOMAIN request.user_context

ContextKeys == {"product_name", "crop_type", "application_type", "problem",
                "ph_issues", "timing_question", "question_type"}

HistoryContext(i) == ExtractedOf[recent_history[i].user_message]

(* the value of k by precedence: explicit context, then the current message,
   then the newest fetched history message that sets k; None for no value *)
ByPrecedence(k) ==
    IF k \in DOMAIN request.user_context THEN request.user_context[k]
    ELSE IF k \in DOMAIN extracted_context THEN extracted_context[k]
    ELSE IF \E i \in 1..Len(recent_history) : k \in DOMAIN HistoryContext(i)
         THEN LET newest == CHOOSE i \in 1..Len(recent_history) :
                               /\ k \in DOMAIN HistoryContext(i)
                               /\ \A h \in 1..(i - 1) : k \notin DOMAIN HistoryContext(h)
              IN HistoryContext(newest)[k]
    ELSE None

HasValue(k) ==
    \/ k \in DOMAIN request.user_context
    \/ k \in DOMAIN extracted_context
    \/ \E i \in 1..Len(recent_history) : k \in DOMAIN HistoryContext(i)

(* C6: per field, the newest history message that sets it wins among the
   history messages, the current message overrides the history, and a key of
   the explicit user_context overrides both, also over a non-null value; the
   fetched history is newest first and is the last turns of the log. *)
C6_Precedence ==
    InFlight =>
        /\ \A k \in ContextKeys :
              /\ (k \in DOMAIN combined_context) <=> HasValue(k)
              /\ HasValue(k) => combined_context[k] = ByPrecedence(k)
        /\ \A i \in 1..Len(recent_history) :
              recent_history[i] = PriorTurns[Len(PriorTurns) + 1 - i]

C6_Witness ==
    /\ InFlight
    /\ Len(recent_history) >= 2
    /\ "crop_type" \in DOMAIN HistoryContext(1) /\ "crop_type" \in DOMAIN HistoryContext(2)
    /\ HistoryContext(1)["crop_type"] # HistoryContext(2)["crop_type"]
    /\ "crop_type" \in DOMAIN extracted_context
    /\ Truthy(Get(conversation_context, "crop_type"))
    /\ "crop_type" \in DOMAIN request.user_context
    /\ combined_context["crop_type"] = request.user_context["crop_type"]

(***************************************************************************)
(* Properties of the extractor (SpecExtract)                               *)
(***************************************************************************)
Extracted == pc = "extracted"

Msg == Lower(request.message)

(* the words of s: its maximal runs of word characters *)
Tokens(s) ==
    {SubSeq(s, p[1], p[2]) :
        p \in {q \in (1..Len(s)) \X (1..Len(s)) :
                  /\ q[1] <= q[2]
                  /\ \A k \in q[1]..q[2] : IsWordChar(CharAt(s, k))
                  /\ ~WordAt(s, q[1] - 1)
                  /\ ~WordAt(s, q[2] + 1)}}

HasHigh(m) == \E j \in 1..Len(high_ph_indicators) : Contains(m, high_ph_indicators[j])
HasLow(m) == \E j \in 1..Len(low_ph_indicators) : Contains(m, low_ph_indicators[j])
HasBarePh(m) == "ph" \in Tokens(m)

(* C11: classify_ph_issue gives Soil Salinity for a message with a high-pH
   indicator; otherwise Soil Acidity for one with a low-pH indicator; the
   generic marker "pH Issues" only when neither is present and the word ph is;
   null with none of the three.  A specific indicator together with the bare
   word ph never gives the generic marker. *)
C11_PhPrecedence ==
    Extracted =>
        LET r == classify_ph_issue(Msg)
        IN /\ HasHigh(Msg) => r = "Soil Salinity"
           /\ (~HasHigh(Msg) /\ HasLow(Msg)) => r = "Soil Acidity"
           /\ (~HasHigh(Msg) /\ ~HasLow(Msg) /\ HasBarePh(Msg)) => r = "pH Issues"
           /\ (~HasHigh(Msg) /\ ~HasLow(Msg) /\ ~HasBarePh(Msg)) => r = None
           /\ ((HasHigh(Msg) \/ HasLow(Msg)) /\ HasBarePh(Msg)) => r # "pH Issues"
           /\ r # None => Get(extracted_context, "problem") = r

C11_Witness ==
    /\ Extracted
    /\ HasHigh(Msg) /\ HasLow(Msg) /\ HasBarePh(Msg)
    /\ Get(extracted_context, "problem") = "Soil Salinity"

(* the label of the first entry of the problems dict with a keyword in m, None without one *)
TableLabel(m) ==
    IF \E j \in 1..Len(problems) : AnyIn(m, problems[j].keywords)
    THEN LET first == CHOOSE j \in 1..Len(problems) :
                         /\ AnyIn(m, problems[j].keywords)
                         /\ \A h \in 1..(j - 1) : ~AnyIn(m, problems[h].keywords)
         IN problems[first].problem
    ELSE None

(* C12: when pH classification returns a result, that result is the extracted
   problem whatever the problem-keyword table would give; the table's first
   label with a keyword hit is the problem only when pH classification returns
   null, and without a hit there is no problem. *)
C12_PhBeforeTable ==
    Extracted =>
        LET r == classify_ph_issue(Msg)
        IN /\ r # None => /\ Get(extracted_context, "problem") = r
                          /\ ("ph_issues" \in DOMAIN extracted_context) <=> (r = "pH Issues")
           /\ r = None => /\ Get(extracted_context, "problem") = TableLabel(Msg)
                          /\ "ph_issues" \notin DOMAIN extracted_context
                          /\ ("problem" \in DOMAIN extracted_context) <=> (TableLabel(Msg) # None)

C12_Witness ==
    /\ Extracted
    /\ classify_ph_issue(Msg) = "Soil Acidity"
    /\ TableLabel(Msg) = "Soil Health"
    /\ extracted_context["problem"] = "Soil Acidity"

HasNutWord(m) == Tokens(m) \cap {"nut", "nuts"} # {}

(* the entries of the crop list that are words of m *)
CropHits(m) == LET words == Tokens(m) IN {j \in 1..Len(crops) : crops[j] \in words}

(* C18: a message with nut or nuts as a whole word gets crop_type Pecan Nuts,
   whichever crop keywords it also holds and wherever they stand. *)
C18_NutFirst ==
    (Extracted /\ HasNutWord(Msg)) => Get(extracted_context, "crop_type") = "Pecan Nuts"

C18_Witness ==
    /\ Extracted /\ HasNutWord(Msg)
    /\ \E j \in CropHits(Msg) : CropLabel(crops[j]) # "Pecan Nuts" /\ SubSeq(Msg, 1, Len(crops[j])) = crops[j]
    /\ extracted_context["crop_type"] = "Pecan Nuts"

(* C19: crop_type is set only from a whole word: a message none of whose
   words is nut, nuts or a crop keyword gets no crop_type, and Pecan Nuts is
   given only for one of the words nut, nuts, pecan, pecans; "nutrition" alone
   gives no crop. *)
C19_WholeWordsOnly ==
    Extracted =>
        /\ (~HasNutWord(Msg) /\ CropHits(Msg) = {}) => "crop_type" \notin DOMAIN extracted_context
        /\ Get(extracted_context, "crop_type") = "Pecan Nuts"
              => Tokens(Msg) \cap {"nut", "nuts", "pecan", "pecans"} # {}

C19_Witness ==
    /\ Extracted
    /\ request.message = "I need nutrition advice"
    /\ Contains(Msg, "nut")
    /\ "crop_type" \notin DOMAIN extracted_context

(* position of the first character of word k in m *)
StartOf(m, k) == CHOOSE i \in 1..Len(m) :
                    /\ SubSeq(m, i, i + Len(k) - 1) = k
                    /\ ~WordAt(m, i - 1) /\ ~WordAt(m, i + Len(k))
                    /\ \A h \in 1..(i - 1) : ~(/\ SubSeq(m, h, h + Len(k) - 1) = k
                                               /\ ~WordAt(m, h - 1) /\ ~WordAt(m, h + Len(k)))

HasApplicationKeyword(m) ==
    \E j \in 1..Len(applications) : \E k \in 1..Len(applications[j].keywords) :
        Contains(m, applications[j].keywords[k])

(* C20: without the word nut or nuts, the crop keyword that stands first in
   the crop list decides crop_type, not the one that stands first in the
   message; one crop_type is set; an application keyword in the same message
   sets application_type as well. *)
C20_ListOrderDecides ==
    (Extracted /\ ~HasNutWord(Msg)) =>
        /\ CropHits(Msg) # {} =>
              LET first == CHOOSE j \in CropHits(Msg) : \A h \in CropHits(Msg) : j <= h
              IN Get(extracted_context, "crop_type") = CropLabel(crops[first])
        /\ CropHits(Msg) = {} => "crop_type" \notin DOMAIN extracted_context
        /\ ("application_type" \in DOMAIN extracted_context) <=> HasApplicationKeyword(Msg)
        /\ "application_type" \in DOMAIN extracted_context
              => extracted_context["application_type"] \in {"Foliar", "Soil", "Water"}

C20_Witness ==
    /\ Extracted /\ ~HasNutWord(Msg)
    /\ \E j, h \in CropHits(Msg) :
          /\ j < h
          /\ StartOf(Msg, crops[h]) < StartOf(Msg, crops[j])
          /\ CropLabel(crops[j]) # CropLabel(crops[h])
          /\ extracted_context["crop_type"] = CropLabel(crops[j])
    /\ Get(extracted_context, "application_type") = "Foliar"

(* the labels of the crop column of the catalog *)
CanonicalCropLabels ==
    {"Tomatoes & Vegetables", "Potatoes", "Grass pastures", "Field Tobacco", "Maize & Wheat",
     "Deciduous Fruit", "Macadamias & Avos (Other Subtropicals)", "Pecan Nuts",
     "Seedlings (Tobacco included)", "Soyas and other legumes"}

(* C21: every crop_type the extractor produces is one of the canonical crop
   category labels, never a raw crop word of the keyword list *)
C21_CanonicalCropLabel ==
    (Extracted /\ "crop_type" \in DOMAIN extracted_context)
        => extracted_context["crop_type"] \in CanonicalCropLabels

(***************************************************************************)
(* Properties of failures and of the later resolver branches (Spec)        *)
(***************************************************************************)
(* the conversation has logged turns and the request's read returned none:
   the read of limit 5 raised *)
ReadFailed == PriorTurns # <<>> /\ recent_history = <<>>

(* the combined context as chat() built it, before the resolver's mark *)
CombinedAsBuilt ==
    [k \in (DOMAIN combined_context) \ {"ph_unified_product"} |-> combined_context[k]]

(* C13: when the history read fails the request goes on with an empty
   history: the conversation context is empty, the combined context is the
   current message's extracted context overlaid with the explicit
   user_context, the resolver and the evaluator run on it, and the response is
   a success or partial one, never an error. *)
C13_ReadFailureDegrades ==
    /\ (InFlight /\ ReadFailed) =>
          /\ conversation_context = EmptyDict
          /\ extracted_context = ExtractedOf[request.message]
          /\ CombinedAsBuilt = [k \in (DOMAIN extracted_context) \cup (DOMAIN request.user_context) |->
                                   IF k \in DOMAIN request.user_context
                                   THEN request.user_context[k] ELSE extracted_context[k]]
          /\ Resolved => \E db \in DbOutcomes :
                            LET st == get_relevant_products(CombinedAsBuilt, catalog, db)
                            IN products_found = st.products /\ queries = st.queries
          /\ Analysed => ai_result.context_analysis = _has_sufficient_context(combined_context)
    /\ (pc = "done" /\ recent_history = <<>>) => response.status \in {"success", "partial"}

C13_Witness ==
    /\ pc = "responded" /\ ReadFailed
    /\ "crop_type" \in DOMAIN TurnContext(1)
    /\ "crop_type" \notin DOMAIN combined_context
    /\ "application_type" \in DOMAIN request.user_context
    /\ extracted_context # EmptyDict
    /\ ai_result.status = "success"

(* the i-th catalog call of the request raised: the catalog holds rows for it
   and none came back *)
QueryFailed(i) == queries[i].rows = <<>> /\ Execute(catalog, queries[i].call, TRUE) # <<>>

NoRowsAtAll == \A i \in 1..Len(queries) : queries[i].rows = <<>>

(* C14: a catalog query that fails comes back as an empty result: every call
   of the resolver holds either the catalog's rows for it or none; when no
   call of the request returned a row the resolver's result is the empty
   list; and the request ends with a success or partial response. *)
C14_QueryFailureIsEmpty ==
    /\ Resolved =>
          /\ \A i \in 1..Len(queries) :
                queries[i].rows \in {<<>>, Execute(catalog, queries[i].call, TRUE)}
          /\ NoRowsAtAll => products_found = <<>>
    /\ pc = "done" => response.status \in {"success", "partial"}

C14_Witness ==
    /\ pc = "done"
    /\ Len(queries) >= 2
    /\ NoRowsAtAll
    /\ \E i \in 1..Len(queries) : QueryFailed(i)
    /\ products_found = <<>>
    /\ response.status = "success"

(* the number of calls of the direct and problem branches *)
EarlierCalls ==
    (IF Set("product_name") THEN 1 ELSE 0)
    + (IF ~Set("problem") THEN 0 ELSE IF combined_context["problem"] = "pH Issues" THEN 2 ELSE 1)

EarlierEmpty ==
    /\ Len(queries) >= EarlierCalls
    /\ \A i \in 1..EarlierCalls : queries[i].rows = <<>>

(* rows without those repeating the six-field key of an earlier row *)
FirstByKey(rows) ==
    LET Key(r) == <<r.product_name, r.crop, r.application, r.growth_stage, r.problem, r.application_type>>
        kept == {i \in 1..Len(rows) : \A j \in 1..(i - 1) : Key(rows[j]) # Key(rows[i])}
        Pos(n) == CHOOSE i \in kept : Cardinality({h \in kept : h <= i}) = n
    IN [n \in 1..Cardinality(kept) |-> rows[Pos(n)]]

CropCase == Resolved /\ Set("crop_type") /\ ~CropOnly /\ EarlierEmpty

CombinedCall == CriteriaCall(Get(combined_context, "crop_type"), Get(combined_context, "application_type"),
                             Get(combined_context, "problem"))

(* C16 as stated: in the crop branch the combined query comes first, the crop
   search is issued iff it returned no rows, and the rows of the crop search
   are then the result. *)
C16_FallbackRowsAreResult ==
    CropCase =>
        /\ Len(queries) > EarlierCalls
        /\ queries[EarlierCalls + 1].call = CombinedCall
        /\ (Len(queries) > EarlierCalls + 1) <=> (queries[EarlierCalls + 1].rows = <<>>)
        /\ Len(queries) > EarlierCalls + 1 =>
              /\ Len(queries) = EarlierCalls + 2
              /\ queries[EarlierCalls + 2].call = CropCall(combined_context["crop_type"])
              /\ products_found = queries[EarlierCalls + 2].rows

(* C16, amended: the same, the result being the rows of the last call of the
   branch without the rows that repeat the six-field key of an earlier row. *)
C16_FallbackRowsDeduplicated ==
    CropCase =>
        /\ Len(queries) > EarlierCalls
        /\ queries[EarlierCalls + 1].call = CombinedCall
        /\ (Len(queries) > EarlierCalls + 1) <=> (queries[EarlierCalls + 1].rows = <<>>)
        /\ Len(queries) <= EarlierCalls + 2
        /\ Len(queries) > EarlierCalls + 1 =>
              queries[EarlierCalls + 2].call = CropCall(combined_context["crop_type"])
        /\ products_found = FirstByKey(queries[Len(queries)].rows)

C16_Witness ==
    /\ CropCase
    /\ Len(queries) = EarlierCalls + 2
    /\ queries[EarlierCalls + 2].rows # <<>>
    /\ Len(products_found) < Len(queries[EarlierCalls + 2].rows)

AppCase == Resolved /\ ~Set("crop_type") /\ Set("application_type") /\ EarlierEmpty

IsAppOnlyCall(call) ==
    call.kind = "search_products_by_criteria" /\ call.crop = None /\ call.problem = None

(* C17: a criteria call on application_type alone is made only when crop_type
   is absent, application_type is present and no earlier branch returned rows;
   it is then the last call, it carries neither crop nor problem even when the
   context holds a problem, and its rows (duplicates removed) are the result. *)
C17_ApplicationOnlyCall ==
    /\ AppCase =>
          /\ Len(queries) = EarlierCalls + 1
          /\ queries[Len(queries)].call = CriteriaCall(None, combined_context["application_type"], None)
          /\ products_found = FirstByKey(queries[Len(queries)].rows)
    /\ (Resolved /\ ~AppCase) => \A i \in 1..Len(queries) : ~IsAppOnlyCall(queries[i].call)

C17_Witness ==
    /\ AppCase /\ Set("problem")
    /\ IsAppOnlyCall(queries[Len(queries)].call)
    /\ \E i \in 1..Len(products_found) :
          products_found[i].problem \notin {combined_context["problem"], "Soil Acidity", "Soil Salinity"}

(* the two pH queries were the last calls of the resolver and their rows are
   what it returned *)
PhUnionReturned ==
    /\ Get(combined_context, "problem") = "pH Issues"
    /\ Len(queries) = EarlierCalls
    /\ products_found # <<>>
    /\ \A i \in 1..Len(products_found) : products_found[i].problem \in {"Soil Acidity", "Soil Salinity"}

(* C26: the context carries ph_unified_product only when the resolver's
   result is the deduplicated union of the Soil Acidity and Soil Salinity
   queries; when the products come from the crop or application branch the
   mark is absent and the unified-pH guidance is not selected. *)
C26_MarkOnlyForPhUnion ==
    /\ (Resolved /\ products_found # <<>> /\ Set("ph_unified_product")) => PhUnionReturned
    /\ (pc \in {"responded", "done"} /\ ai_result.guidance = "ph_unified") => PhUnionReturned

(***************************************************************************)
(* Properties of interleaved requests (SpecConc)                           *)
(***************************************************************************)
Frames == {Running, suspended}

Started(f) == f.pc \in {"context", "resolved", "responded", "done"}
ResolvedIn(f) == f.pc \in {"resolved", "responded", "done"}
AnalysedIn(f) == f.pc \in {"responded", "done"} /\ f.ai_result.analysed

(* the combined context of f as a function of f's own message, the history
   f fetched and f's explicit context *)
BuiltFrom(f) ==
    Combine(Accumulate(f.recent_history), extract_context_from_message(f.request.message),
            f.request.user_context)

(* the log of f's conversation holds a turn f did not see when it read it *)
LogMovedOn(f) ==
    /\ f.pc \in {"context", "resolved", "responded"}
    /\ get_chat_history(chatLogs, f.request.conversation_id, HistoryLimit, TRUE) # f.recent_history

(* C15: under any interleaving of two requests, for the same or different
   conversations, each request's combined context is a function of its own
   message, the history it fetched and its explicit context; its product list
   is the resolver's result on that context and the catalog rows its calls
   fetched; its scenario is the evaluator's verdict on its own combined
   context; none depends on what the other request did in between. *)
C15_RequestsIndependent ==
    \A f \in Frames :
        /\ f.pc = "context" => f.combined_context = BuiltFrom(f)
        /\ ResolvedIn(f) =>
              \E db \in DbAnswers :
                  LET st == get_relevant_products(BuiltFrom(f), catalog, db)
                  IN /\ f.combined_context = st.context
                     /\ f.products_found = st.products
                     /\ f.queries = st.queries
        /\ AnalysedIn(f) => f.ai_result.context_analysis = _has_sufficient_context(f.combined_context)

C15_Witness ==
    /\ pc = "responded" /\ ai_result.analysed
    /\ LogMovedOn(Running)
    /\ suspended.pc = "done"
    /\ suspended.request.conversation_id = request.conversation_id
    /\ "crop_type" \in DOMAIN suspended.extracted_context
    /\ "crop_type" \notin DOMAIN combined_context
    /\ ai_result.context_analysis.scenario = "problem_focused"

(***************************************************************************)
(* Properties of the circuit breaker and of the responses (SpecService)    *)
(***************************************************************************)
(* a step in which chat() gets its result from get_smart_chat_response *)
SmartCallStep == pc = "resolved" /\ pc' = "responded" /\ suspended' = suspended

(* a step in which get_chat_response returns *)
BasicCallStep == llm_call' # llm_call /\ llm_call'.op = "get_chat_response"

(* a failure is on record and less than the timeout old *)
FailureIsRecent == last_azure_failure # NoFailure /\ now - last_azure_failure < 300

(* C22: while the breaker is open get_smart_chat_response and
   get_chat_response return the emergency response with provider emergency
   and status circuit_breaker_open, make no Azure OpenAI call and leave
   last_azure_failure alone; when Azure OpenAI is not available they return
   service_unavailable, again without a call and without recording a failure. *)
C22_OpenCircuitAnswersWithoutAzure ==
    [][/\ SmartCallStep =>
            /\ (azure_available /\ FailureIsRecent) =>
                  /\ ai_result'.status = "circuit_breaker_open"
                  /\ ai_result'.provider = "emergency"
                  /\ ai_result'.response = EmergencyText
                  /\ ~ai_result'.azure_called
                  /\ last_azure_failure' = last_azure_failure
            /\ ~azure_available =>
                  /\ ai_result'.status = "service_unavailable"
                  /\ ai_result'.provider = "emergency"
                  /\ ~ai_result'.azure_called
                  /\ last_azure_failure' = last_azure_failure
       /\ BasicCallStep =>
            /\ (azure_available /\ FailureIsRecent) =>
                  /\ llm_call'.status = "circuit_breaker_open"
                  /\ llm_call'.provider = "emergency"
                  /\ ~llm_call'.azure_called
                  /\ last_azure_failure' = last_azure_failure
            /\ ~azure_available =>
                  /\ llm_call'.status = "service_unavailable"
                  /\ llm_call'.provider = "emergency"
                  /\ ~llm_call'.azure_called
                  /\ last_azure_failure' = last_azure_failure]_vars

C22_Witness ==
    /\ FailureIsRecent /\ now > last_azure_failure
    /\ pc = "responded" /\ ai_result.status = "circuit_breaker_open" /\ ~ai_result.azure_called
    /\ llm_call.op = "get_chat_response" /\ llm_call.status = "circuit_breaker_open"

(* C23: the breaker is open exactly when the last recorded failure is less
   than 300 s old and has not been cleared: a chat call is short-circuited
   exactly then; a failed chat call records the current time, a successful
   one and reset_circuit_breaker clear the record, nothing else touches it,
   and a chat call made 300 s or more after the last failure goes through to
   the service again. *)
C23_BreakerFollowsLastFailure ==
    [][/\ (SmartCallStep /\ azure_available) =>
            /\ ai_result'.status = "circuit_breaker_open" <=> FailureIsRecent
            /\ ai_result'.status = "service_failed" => last_azure_failure' = now
            /\ ai_result'.status = "success" => last_azure_failure' = NoFailure
            /\ ~FailureIsRecent => ai_result'.status \in {"success", "service_failed"}
       /\ (BasicCallStep /\ azure_available) =>
            /\ llm_call'.status = "circuit_breaker_open" <=> FailureIsRecent
            /\ llm_call'.status = "service_failed" => last_azure_failure' = now
            /\ llm_call'.status = "success" => last_azure_failure' = NoFailure
            /\ ~FailureIsRecent => llm_call'.azure_called
       /\ last_azure_failure' # last_azure_failure =>
            \/ SmartCallStep /\ ai_result'.status \in {"success", "service_failed"}
            \/ BasicCallStep /\ llm_call'.status \in {"success", "service_failed"}
            \/ last_azure_failure' = NoFailure /\ UNCHANGED <<pc, ai_result, llm_call, now>>
       /\ now' # now => last_azure_failure' = last_azure_failure]_vars

(* a failure was recorded, a call was refused while it was recent, the
   timeout has now run out to the second, and the chat call made now went
   through to Azure OpenAI *)
C23_Witness ==
    /\ llm_call.op = "get_chat_response" /\ llm_call.status = "circuit_breaker_open"
    /\ pc = "responded" /\ ai_result.azure_called /\ ai_result.status = "service_failed"
    /\ last_azure_failure = now /\ now >= 300

(* C29: any exception inside get_smart_chat_response after the availability
   checks, one raised before the Azure OpenAI call included, records
   last_azure_failure and returns service_failed, and the breaker is open
   from then on for as long as the record stands and is less than 300 s old. *)
C29_AnyExceptionTripsBreaker ==
    [][SmartCallStep =>
          /\ (azure_available /\ ~FailureIsRecent /\ ai_result'.status # "success") =>
                /\ ai_result'.status = "service_failed"
                /\ ai_result'.provider = "emergency"
                /\ last_azure_failure' = now
                /\ _is_azure_circuit_open'
          /\ (ai_result'.status = "service_failed" /\ ~ai_result'.azure_called) =>
                /\ last_azure_failure' = now
                /\ _is_azure_circuit_open']_vars

C29_Witness ==
    /\ pc = "responded" /\ ai_result.status = "service_failed" /\ ~ai_result.azure_called
    /\ last_azure_failure = now /\ _is_azure_circuit_open

(* a step in which test_connectivity returns *)
ConnectivityStep == llm_call' # llm_call /\ llm_call'.op = "test_connectivity"

(* C30: test_connectivity neither consults nor changes the breaker: it calls
   Azure OpenAI whenever azure_available holds, with the breaker open too,
   and leaves last_azure_failure as it was whether the call answers or not. *)
C30_ConnectivityTestBypassesBreaker ==
    [][ConnectivityStep =>
          /\ llm_call'.azure_called <=> azure_available
          /\ azure_available => llm_call'.status \in {"connected", "failed"}
          /\ ~azure_available => llm_call'.status = "not_configured"
          /\ last_azure_failure' = last_azure_failure]_vars

C30_Witness ==
    /\ FailureIsRecent
    /\ llm_call.op = "test_connectivity" /\ llm_call.azure_called /\ llm_call.status = "connected"

(* C25: chat() always ends with a ChatResponse: its status is success exactly
   when the LLM result's status is success, partial when the LLM service
   returned an emergency response, error with an empty context_used when an
   exception left the pipeline; the text is the LLM result's or the apology;
   a failed log write or history count changes neither status nor text. *)
C25_ResponseStatus ==
    pc = "done" =>
        /\ response.status \in {"success", "partial", "error"}
        /\ response.status = "success" <=> ai_result.status = "success"
        /\ ai_result.provider = "emergency" => response.status = "partial"
        /\ response.status = "partial" =>
              ai_result.status \in {"service_unavailable", "circuit_breaker_open", "service_failed"}
        /\ response.status = "error" <=> request.user_context = NullContext
        /\ response.status = "error" => response.context_used = <<>> /\ response.response = ApologyText
        /\ response.status # "error" => response.response = ai_result.response

(* the second request of the conversation ended with the model's answer
   although its history count and its log write both failed *)
C25_Witness ==
    /\ pc = "done" /\ response.status = "success" /\ response.response = AzureText
    /\ request.message = "my potatoes"
    /\ Len(chatLogs) = 1 /\ chatLogs[1].user_message = "hello"
    /\ response.history_count = 0

(***************************************************************************)
(* Properties of the rate limiter (SpecRate)                               *)
(***************************************************************************)
(* the timestamps of seq that lie within the window ending at time t *)
InWindow(seq, t) == {i \in 1..Len(seq) : seq[i] >= t - 3600}

(* the client's deque before and after the step *)
Before(c) == IF c \in DOMAIN rate_limit_storage THEN rate_limit_storage[c] ELSE <<>>
After(c) == IF c \in DOMAIN rate_limit_storage' THEN rate_limit_storage'[c] ELSE <<>>

(* a step of the middleware: the clock stands still *)
DispatchStep == now' = now /\ <<rate_limit_storage, dispatched>>' # <<rate_limit_storage, dispatched>>

(* what one step did to the deque of client c: timestamps were taken from the
   front only, each of them had left the window, and at most the current
   time was added at the back *)
DroppedOnlyExpired(c) ==
    LET added == IF dispatched'.status = 429 THEN 0 ELSE 1
        kept == Len(After(c)) - added
        k == Len(Before(c)) - kept
    IN /\ kept >= 0 /\ k >= 0
       /\ \A i \in 1..k : Before(c)[i] < now - 3600
       /\ SubSeq(After(c), 1, kept) = SubSeq(Before(c), k + 1, Len(Before(c)))
       /\ added = 1 => After(c)[Len(After(c))] = now

(* C24: for every client id the admitted requests with a timestamp within the
   preceding 3600 s never number more than 100: a request that finds 100
   admitted timestamps in the window gets 429 and is neither forwarded nor
   recorded, timestamps that left the window are dropped before the test, so
   that the client is admitted again, and requests to "/" and "/health" are
   forwarded without being counted. *)
C24_AtMostHundredPerWindow ==
    /\ [](\A c \in DOMAIN rate_limit_storage :
             /\ Len(rate_limit_storage[c]) <= 100
             /\ Cardinality(InWindow(rate_limit_storage[c], now)) <= 100)
    /\ [][DispatchStep =>
            LET c == dispatched'.client
            IN /\ \A o \in (DOMAIN rate_limit_storage) \ {c} :
                     o \in DOMAIN rate_limit_storage' /\ rate_limit_storage'[o] = rate_limit_storage[o]
               /\ dispatched'.path \in {"/", "/health"} =>
                     /\ rate_limit_storage' = rate_limit_storage
                     /\ dispatched'.forwarded /\ dispatched'.status # 429
               /\ dispatched'.path \notin {"/", "/health"} =>
                     /\ DroppedOnlyExpired(c)
                     /\ dispatched'.status = 429 <=> Cardinality(InWindow(Before(c), now)) >= 100
                     /\ dispatched'.status = 429 =>
                           /\ ~dispatched'.forwarded
                           /\ Len(After(c)) <= Len(Before(c))
                     /\ dispatched'.status # 429 =>
                           /\ dispatched'.forwarded
                           /\ Cardinality(InWindow(After(c), now)) = Cardinality(InWindow(Before(c), now)) + 1]_vars

(* the key-less client was refused after its second hundred, admitted once
   the first hundred had left the window, while the same address with an API
   key still holds its own first hundred *)
C24_Witness ==
    /\ now > 3600
    /\ dispatched = [client |-> "10.0.0.1", path |-> "/api/v1/chat", status |-> 429, forwarded |-> FALSE]
    /\ "10.0.0.1" \in DOMAIN rate_limit_storage
    /\ Len(rate_limit_storage["10.0.0.1"]) = 100
    /\ \A i \in 1..100 : rate_limit_storage["10.0.0.1"][i] = now
    /\ "10.0.0.1:k1" \in DOMAIN rate_limit_storage
    /\ Len(rate_limit_storage["10.0.0.1:k1"]) = 100
    /\ rate_limit_storage["10.0.0.1:k1"][1] = 0

(***************************************************************************)
(* Properties of flags carried from turn to turn (SpecSticky)              *)
(***************************************************************************)
(* the messages that hold a timing keyword *)
TimingMessages == {m \in StickyMessages : AnyIn(Lower(m), timing_keywords)}

(* one of the history messages the request accumulated from asks about timing *)
TimingInHistory == \E i \in 1..Len(recent_history) : recent_history[i].user_message \in TimingMessages

(* the turns of the conversation so far hold a timing question *)
TimingInLog == \E i \in 1..Len(chatLogs) : chatLogs[i].user_message \in TimingMessages

(* C27: timing_question sticks: it is true in the combined context whenever
   one of the (at most 5) history messages used for accumulation holds a
   timing keyword, whatever the current message says; without a user_context
   key it is set exactly when the current message or one of those history
   messages holds a keyword, so it goes when the message has left the window;
   a user_context key decides it otherwise; and while it is set the prompt
   carries the timing guidance instead of any guidance chosen by scenario. *)
C27_TimingFlagSticks ==
    /\ (InFlight \/ pc = "done") =>
          /\ Len(recent_history) <= 5
          /\ "timing_question" \notin DOMAIN request.user_context =>
                (Set("timing_question") <=> (request.message \in TimingMessages \/ TimingInHistory))
          /\ "timing_question" \in DOMAIN request.user_context =>
                combined_context["timing_question"] = request.user_context["timing_question"]
    /\ (pc \in {"responded", "done"} /\ ai_result.status = "success") =>
          (ai_result.guidance = "timing" <=> Set("timing_question"))

(* a pH question four turns after the timing question: the flag is still set
   and the timing guidance stands where the unified pH guidance would *)
C27_Witness ==
    /\ pc = "responded" /\ request.message = "what ph?" /\ request.user_context = EmptyDict
    /\ Len(recent_history) = 5
    /\ recent_history[5].user_message \in TimingMessages
    /\ \A i \in 1..4 : recent_history[i].user_message \notin TimingMessages
    /\ Set("timing_question") /\ Set("ph_unified_product") /\ products_found # <<>>
    /\ ai_result.guidance = "timing"

(***************************************************************************)
(* Properties of the log write (SpecLog)                                   *)
(***************************************************************************)
(* the row of the running request *)
OwnEntry == [session_id |-> request.conversation_id, user_message |-> request.message]

(* the running coroutine goes from one point of chat() to another *)
HandlerStep(from, to) == pc = from /\ pc' = to /\ suspended' = suspended

(* C28 as stated: a request that meets no exception on its way appends
   exactly one entry, its own, when it reaches the logging step. *)
C28_ExactlyOneEntry ==
    [][HandlerStep("responded", "done") => chatLogs' = Append(chatLogs, OwnEntry)]_vars

(* C28: a request that reaches the logging step appends at most one entry,
   its own, and none when the write fails; the log grows at that step only,
   after the request's history read and after the LLM result is there, an
   emergency result included; a request that ends in the except branch
   before the logging step appends none; hence a request on the same
   conversation that read the history before the append goes on with a
   history and an accumulated context without that message. *)
C28_AtMostOneEntryAfterTheResult ==
    /\ [][/\ HandlerStep("responded", "done") => chatLogs' \in {Append(chatLogs, OwnEntry), chatLogs}
          /\ chatLogs' # chatLogs =>
                /\ HandlerStep("responded", "done")
                /\ chatLogs' = Append(chatLogs, OwnEntry)
                /\ ai_result.status # None /\ ai_result' = ai_result
                /\ recent_history' = recent_history /\ conversation_context' = conversation_context
          /\ (pc' = "done" /\ response'.status = "error" /\ suspended' = suspended) =>
                chatLogs' = chatLogs]_vars
    /\ [](\A f \in Frames :
             f.pc \in {"context", "resolved", "responded", "done"} =>
                 /\ f.conversation_context = Accumulate(f.recent_history)
                 /\ f.pc # "done" =>
                       Len(f.recent_history)
                           <= Len(SelectSeq(chatLogs, LAMBDA en : en.session_id = f.request.conversation_id)))

(* the running request has logged its message after an emergency result while
   the other request of the same conversation, which read the history before,
   is still on its way with an empty history and an empty context *)
C28_Witness ==
    /\ pc = "done" /\ ai_result.provider = "emergency" /\ response.status = "partial"
    /\ chatLogs = <<OwnEntry>> /\ request.message = "my potatoes"
    /\ suspended.pc \in {"context", "resolved", "responded"}
    /\ suspended.request.conversation_id = request.conversation_id
    /\ suspended.recent_history = <<>> /\ suspended.conversation_context = EmptyDict

====
